---- MODULE Spec2Model ----
(***************************************************************************)
(* Panel construction and characteristic normalization of michbru/PTrees.  *)
(*                                                                         *)
(* Numbers are exact rationals <<n, d>> with d > 0 in lowest terms; the    *)
(* float specials are <<0, 0>> (NaN), <<1, 0>> (+inf) and <<-1, 0>>        *)
(* (-inf), so that "missing", "zero" and "infinite" stay distinct values.  *)
(***************************************************************************)
EXTENDS Integers, Sequences, FiniteSets, TLC

VARIABLES
    variant,   \* which normalizer runs: "ptree_prep" or "final"
    panel0,    \* the characteristic column handed to the normalizer
    panel,     \* the column as the normalizer mutates it
    nidx,      \* position in the normalizer's step list (1-based)
    nlog,      \* the normalizer steps executed so far, in order
    wstat,     \* per date: what winsorization computed its percentiles from
    sstat,     \* per date: what rescaling computed its min/max from
    pc,            \* fetch_working_data: the next stage to run
    rawPrices,     \* the vendor's price/volume arrays, one record per ric
    rawFund,       \* the vendor's fundamentals, FQ part then FY part
    padFill,       \* whether this pandas pads NaN inside pct_change
    prices,        \* the prices table
    fundamentals,  \* the fundamentals table
    merged,        \* the merged table, returned at the end
    cut,           \* a date: the twin run sees nothing reported after it
    twin,          \* the tables of the run on the input cut at that date
    universe,      \* the monthly membership rows [date, ric]
    factors,       \* prepare_tree_input: the risk factors table, or None
    char_cols,     \* prepare_tree_input: the columns identified as characteristics
    frames,        \* build_universe: one frame per month looked up so far
    tries,         \* backoff_retry: the number of attempts allowed
    base_sleep,    \* backoff_retry: the first sleep, in seconds
    attempt,       \* backoff_retry: the loop index of the attempt that runs next
    delay,         \* backoff_retry: the next sleep, in seconds
    trace,         \* backoff_retry: the calls of fn and the sleeps, in order
    outcome,       \* backoff_retry: what the wrapper gave its caller
    served,        \* pull_fundamentals: the vendor's condition at each batch so far
    frames_q,      \* pull_fundamentals: one frame per quarterly batch
    frames_a,      \* pull_fundamentals: one frame per annual batch
    fund_table,    \* pull_fundamentals: fund, the table it returns
    finbas_df,     \* 3_build_final_dataset: the monthly panel as main() holds it
    basic_df,      \* 3_build_final_dataset: the annual fundamentals by (isin, year)
    relaxed_df     \* prepare_ptree_data_relaxed: df

normVars == <<variant, panel0, panel, nidx, nlog, wstat, sstat>>

fetchVars == <<pc, rawPrices, rawFund, padFill, prices, fundamentals, merged, cut, twin,
               universe>>

auxVars == <<factors, char_cols, frames>>

retryVars == <<tries, base_sleep, attempt, delay, trace, outcome>>

pullVars == <<served, frames_q, frames_a, fund_table>>

finbasVars == <<finbas_df, basic_df>>

relaxVars == <<relaxed_df>>

callVars == <<retryVars, pullVars, finbasVars, relaxVars>>

vars == <<variant, panel0, panel, nidx, nlog, wstat, sstat,
          pc, rawPrices, rawFund, padFill, prices, fundamentals, merged, cut, twin,
          universe, factors, char_cols, frames,
          tries, base_sleep, attempt, delay, trace, outcome,
          served, frames_q, frames_a, fund_table, finbas_df, basic_df,
          relaxed_df>>

-----------------------------------------------------------------------------
(* Rational arithmetic with NaN and infinities                             *)

NaN == <<0, 0>>
PosInf == <<1, 0>>
NegInf == <<-1, 0>>

Abs(n) == IF n < 0 THEN -n ELSE n

RECURSIVE Gcd(_, _)
Gcd(a, b) == IF b = 0 THEN a ELSE Gcd(b, a % b)

Sgn(n) == IF n > 0 THEN 1 ELSE IF n < 0 THEN -1 ELSE 0

\* the value n/d for any integers; d = 0 gives the float result of n/0
Q(n, d) ==
    IF d = 0 THEN <<Sgn(n), 0>>
    ELSE LET g == Gcd(Abs(n), Abs(d))
             s == IF d < 0 THEN -1 ELSE 1
         IN <<(s * n) \div g, (s * d) \div g>>

I(n) == <<n, 1>>

IsNaN(x) == x[1] = 0 /\ x[2] = 0
IsInf(x) == x[1] # 0 /\ x[2] = 0
IsFin(x) == x[2] > 0
NotNa(x) == ~IsNaN(x)      \* pandas notna(): infinities count as present
IsZero(x) == IsFin(x) /\ x[1] = 0

QNeg(x) == <<-x[1], x[2]>>

QAdd(x, y) ==
    IF IsNaN(x) \/ IsNaN(y) THEN NaN
    ELSE IF IsInf(x) /\ IsInf(y) THEN (IF x[1] = y[1] THEN x ELSE NaN)
    ELSE IF IsInf(x) THEN x
    ELSE IF IsInf(y) THEN y
    ELSE Q(x[1] * y[2] + y[1] * x[2], x[2] * y[2])

QSub(x, y) == QAdd(x, QNeg(y))

QMul(x, y) ==
    IF IsNaN(x) \/ IsNaN(y) THEN NaN
    ELSE IF IsInf(x) \/ IsInf(y) THEN <<Sgn(x[1]) * Sgn(y[1]), 0>>
    ELSE Q(x[1] * y[1], x[2] * y[2])

QDiv(x, y) ==
    IF IsNaN(x) \/ IsNaN(y) THEN NaN
    ELSE IF IsInf(x) THEN (IF IsInf(y) THEN NaN
                           ELSE <<x[1] * (IF y[1] < 0 THEN -1 ELSE 1), 0>>)
    ELSE IF IsInf(y) THEN I(0)
    ELSE IF y[1] = 0 THEN <<Sgn(x[1]), 0>>
    ELSE Q(x[1] * y[2], x[2] * y[1])

\* comparisons are false whenever an operand is NaN, as for floats
QLt(x, y) ==
    /\ NotNa(x) /\ NotNa(y)
    /\ IF IsInf(x) /\ IsInf(y) THEN x[1] < y[1]
       ELSE IF IsInf(x) THEN x[1] < 0
       ELSE IF IsInf(y) THEN y[1] > 0
       ELSE x[1] * y[2] < y[1] * x[2]

QLe(x, y) == NotNa(x) /\ NotNa(y) /\ ~QLt(y, x)

RECURSIVE Pow2(_)
Pow2(n) == IF n = 0 THEN 1 ELSE 2 * Pow2(n - 1)

\* a monotone piecewise-linear stand-in for the logarithm: exact at the
\* powers of two, -inf at 0, NaN below 0
RECURSIVE Log2Floor(_, _)
Log2Floor(n, d) == IF n < 2 * d THEN 0 ELSE 1 + Log2Floor(n, 2 * d)

LogPos(x) ==
    LET k == Log2Floor(x[1], x[2])
    IN QAdd(I(k), QSub(QDiv(x, I(Pow2(k))), I(1)))

Log(x) ==
    IF IsNaN(x) THEN NaN
    ELSE IF IsInf(x) THEN (IF x[1] > 0 THEN PosInf ELSE NaN)
    ELSE IF x[1] < 0 THEN NaN
    ELSE IF x[1] = 0 THEN NegInf
    ELSE IF x[1] >= x[2] THEN LogPos(x)
    ELSE QNeg(LogPos(<<x[2], x[1]>>))

RECURSIVE IsqrtIn(_, _, _)
IsqrtIn(n, lo, hi) ==
    IF lo >= hi THEN lo
    ELSE LET mid == (lo + hi + 1) \div 2
         IN IF mid * mid <= n THEN IsqrtIn(n, mid, hi) ELSE IsqrtIn(n, lo, mid - 1)

\* the square root, to two decimals
Sqrt(x) ==
    IF IsNaN(x) THEN NaN
    ELSE IF IsInf(x) THEN (IF x[1] > 0 THEN PosInf ELSE NaN)
    ELSE IF x[1] < 0 THEN NaN
    ELSE LET scale == 100
             n == x[1] * x[2] * scale * scale
         IN Q(IsqrtIn(n, 0, IF n < 46340 THEN n ELSE 46340), x[2] * scale)

-----------------------------------------------------------------------------
(* Cross-sectional normalizer                                              *)

NEnt == 6                    \* entities in the first period
Dates == {1, 2}
Rows == ({1} \X (1..NEnt)) \cup ({2} \X {1})
RawVals == {NaN, I(1), I(2), I(100)}
ThinVals == {NaN, I(7)}

RowsAt(d) == {r \in Rows : r[1] = d}
\* the observations of every date pooled
ValidRowsPooled(p, d) == {r \in Rows : NotNa(p[r])}

\* group[col].notna() within the group of date d
ValidRows(p, d) == {r \in RowsAt(d) : NotNa(p[r])}

\* the values of rows S in ascending order
RECURSIVE SortedVals(_, _)
SortedVals(p, S) ==
    IF S = {} THEN <<>>
    ELSE LET m == CHOOSE r \in S : \A s \in S : QLe(p[r], p[s])
         IN <<p[m]>> \o SortedVals(p, S \ {m})

\* pandas Series.quantile / numpy.percentile, linear interpolation
Quantile(sorted, qn, qd) ==
    LET pos == (Len(sorted) - 1) * qn
        lo == pos \div qd
        fr == pos % qd
    IN IF fr = 0 THEN sorted[lo + 1]
       ELSE QAdd(sorted[lo + 1],
                 QMul(Q(fr, qd), QSub(sorted[lo + 2], sorted[lo + 1])))

\* a clip that bounds a value from below only
ClipLowerOnly(x, lo, hi) ==
    IF IsNaN(x) THEN x
    ELSE IF QLt(x, lo) THEN lo
    ELSE x

\* Series.clip(lower=lo, upper=hi)
Clip(x, lo, hi) ==
    IF IsNaN(x) THEN x
    ELSE IF QLt(x, lo) THEN lo
    ELSE IF QLt(hi, x) THEN hi
    ELSE x

LowerPct == 1                \* winsorize_pcts[0], in hundredths
UpperPct == 99               \* winsorize_pcts[1], in hundredths
PctDen == 100
WinsorMinObs == 5            \* ptree_prep: "Need at least 5 observations"
ScaleMinObs == 2             \* ptree_prep: "Need at least 2 observations"
PPMinObs == 2                \* final pipeline: "Need at least 2 non-NaN values"
FillValue == I(0)

NoStat == [rows |-> {}, lo |-> NaN, hi |-> NaN]

\* the rows and the two percentiles winsorize_month works from at date d
WinsorStat(p, d, minObs) ==
    LET V == ValidRows(p, d)
        sv == SortedVals(p, V)
    IN IF Cardinality(V) >= minObs
       THEN [rows |-> V, lo |-> Quantile(sv, LowerPct, PctDen),
             hi |-> Quantile(sv, UpperPct, PctDen)]
       ELSE NoStat

\* the rows and the min/max standardize_month works from at date d
ScaleStat(p, d, minObs) ==
    LET V == ValidRows(p, d)
        sv == SortedVals(p, V)
    IN IF Cardinality(V) >= minObs
       THEN [rows |-> V, lo |-> sv[1], hi |-> sv[Len(sv)]]
       ELSE NoStat

MinMax(x, lo, hi) == QSub(QDiv(QMul(I(2), QSub(x, lo)), QSub(hi, lo)), I(1))

winsorize_characteristics(p) ==
    [r \in Rows |->
        LET st == WinsorStat(p, r[1], WinsorMinObs)
        IN IF st.rows # {} THEN Clip(p[r], st.lo, st.hi) ELSE p[r]]

standardize_characteristics(p) ==
    [r \in Rows |->
        LET st == ScaleStat(p, r[1], ScaleMinObs)
        IN IF st.rows = {} THEN p[r]
           ELSE IF st.lo = st.hi THEN I(0)
           ELSE MinMax(p[r], st.lo, st.hi)]

\* "for col in char_cols": each column of the panel on its own
winsorize_panel(P) == [c \in DOMAIN P |-> winsorize_characteristics(P[c])]

standardize_panel(P) == [c \in DOMAIN P |-> standardize_characteristics(P[c])]

fill_missing_values(p) ==
    [r \in Rows |-> IF IsNaN(p[r]) THEN FillValue ELSE p[r]]

pp_winsorize_month(p) ==
    [r \in Rows |->
        LET st == WinsorStat(p, r[1], PPMinObs)
        IN IF st.rows # {} THEN Clip(p[r], st.lo, st.hi) ELSE p[r]]

pp_minmax_normalize(p) ==
    [r \in Rows |->
        LET st == ScaleStat(p, r[1], PPMinObs)
        IN IF st.rows = {} THEN p[r]
           ELSE IF st.lo = st.hi THEN QMul(p[r], I(0))
           ELSE MinMax(p[r], st.lo, st.hi)]

pp_fillna(p) == [r \in Rows |-> IF IsNaN(p[r]) THEN I(0) ELSE p[r]]

\* an order that fills the missing values before the statistics are taken
PrepStepsFillFirst == <<"fill", "winsorize", "standardize">>

\* the order in which prepare_tree_input / preprocess_for_ptrees run the steps
PrepSteps == <<"winsorize", "standardize", "fill">>

TwinIdle == [prices |-> <<>>, fundamentals |-> <<>>, merged |-> <<>>]

\* factors=None
NoFactors == [given |-> FALSE, columns |-> {}, rows |-> <<>>]

AuxIdle ==
    /\ factors = NoFactors
    /\ char_cols = {}
    /\ frames = <<>>

\* what a call gave its caller: nothing yet, a value, None, or an exception
NoOutcome == [kind |-> "none", value |-> 0, exc |-> ""]

RetryIdle ==
    /\ tries = 0
    /\ base_sleep = 0
    /\ attempt = 0
    /\ delay = 0
    /\ trace = <<>>
    /\ outcome = NoOutcome

PullIdle ==
    /\ served = <<>>
    /\ frames_q = <<>>
    /\ frames_a = <<>>
    /\ fund_table = <<>>

FinbasIdle ==
    /\ finbas_df = <<>>
    /\ basic_df = <<>>

RelaxIdle == relaxed_df = <<>>

CallIdle == RetryIdle /\ PullIdle /\ FinbasIdle /\ RelaxIdle

FetchIdle ==
    /\ pc = "idle"
    /\ rawPrices = <<>>
    /\ rawFund = <<>>
    /\ padFill = FALSE
    /\ prices = <<>>
    /\ fundamentals = <<>>
    /\ merged = <<>>
    /\ cut = 0
    /\ twin = TwinIdle
    /\ universe = <<>>

InitNorm ==
    /\ FetchIdle
    /\ AuxIdle
    /\ CallIdle
    /\ variant \in {"ptree_prep", "final"}
    /\ panel0 \in {f \in [Rows -> RawVals \cup ThinVals] :
                     \A r \in Rows : f[r] \in (IF r[1] = 1 THEN RawVals ELSE ThinVals)}
    /\ panel = panel0
    /\ nidx = 1
    /\ nlog = <<>>
    /\ wstat = [d \in Dates |-> NoStat]
    /\ sstat = [d \in Dates |-> NoStat]

AtStep(name) == nidx <= Len(PrepSteps) /\ PrepSteps[nidx] = name

Advance(name) == nidx' = nidx + 1 /\ nlog' = Append(nlog, name)

WinsorizeStep ==
    /\ variant = "ptree_prep" /\ AtStep("winsorize")
    /\ panel' = winsorize_characteristics(panel)
    /\ wstat' = [d \in Dates |-> WinsorStat(panel, d, WinsorMinObs)]
    /\ Advance("winsorize")
    /\ UNCHANGED <<variant, panel0, sstat>>
    /\ UNCHANGED fetchVars
    /\ UNCHANGED auxVars
    /\ UNCHANGED callVars

StandardizeStep ==
    /\ variant = "ptree_prep" /\ AtStep("standardize")
    /\ panel' = standardize_characteristics(panel)
    /\ sstat' = [d \in Dates |-> ScaleStat(panel, d, ScaleMinObs)]
    /\ Advance("standardize")
    /\ UNCHANGED <<variant, panel0, wstat>>
    /\ UNCHANGED fetchVars
    /\ UNCHANGED auxVars
    /\ UNCHANGED callVars

FillStep ==
    /\ variant = "ptree_prep" /\ AtStep("fill")
    /\ panel' = fill_missing_values(panel)
    /\ Advance("fill")
    /\ UNCHANGED <<variant, panel0, wstat, sstat>>
    /\ UNCHANGED fetchVars
    /\ UNCHANGED auxVars
    /\ UNCHANGED callVars

PPWinsorizeStep ==
    /\ variant = "final" /\ AtStep("winsorize")
    /\ panel' = pp_winsorize_month(panel)
    /\ wstat' = [d \in Dates |-> WinsorStat(panel, d, PPMinObs)]
    /\ Advance("winsorize")
    /\ UNCHANGED <<variant, panel0, sstat>>
    /\ UNCHANGED fetchVars
    /\ UNCHANGED auxVars
    /\ UNCHANGED callVars

PPNormalizeStep ==
    /\ variant = "final" /\ AtStep("standardize")
    /\ panel' = pp_minmax_normalize(panel)
    /\ sstat' = [d \in Dates |-> ScaleStat(panel, d, PPMinObs)]
    /\ Advance("standardize")
    /\ UNCHANGED <<variant, panel0, wstat>>
    /\ UNCHANGED fetchVars
    /\ UNCHANGED auxVars
    /\ UNCHANGED callVars

PPFillStep ==
    /\ variant = "final" /\ AtStep("fill")
    /\ panel' = pp_fillna(panel)
    /\ Advance("fill")
    /\ UNCHANGED <<variant, panel0, wstat, sstat>>
    /\ UNCHANGED fetchVars
    /\ UNCHANGED auxVars
    /\ UNCHANGED callVars

NextNorm ==
    \/ WinsorizeStep
    \/ StandardizeStep
    \/ FillStep
    \/ PPWinsorizeStep
    \/ PPNormalizeStep
    \/ PPFillStep

SpecNorm == InitNorm /\ [][NextNorm]_vars

NormDone == nidx > Len(PrepSteps)

InUnit(x) == IsFin(x) /\ -x[2] <= x[1] /\ x[1] <= x[2]

\* C1: after prepare_tree_input (minmax, fill 0.0) every value of the
\* characteristic column lies within [-1, 1] and none is missing, whatever
\* the number of non-missing observations at a date.
C1_Bounded ==
    (variant = "ptree_prep" /\ NormDone) => \A r \in Rows : InUnit(panel[r])

\* the rows of date d that hold an observation in the input panel
Genuine(d) == {r \in RowsAt(d) : NotNa(panel0[r])}

\* the value of row r after the winsorize step, from the input panel
Winsorized(r) ==
    IF wstat[r[1]].rows = {} THEN panel0[r]
    ELSE Clip(panel0[r], wstat[r[1]].lo, wstat[r[1]].hi)

Least(S) == CHOOSE x \in S : \A y \in S : QLe(x, y)
Greatest(S) == CHOOSE x \in S : \A y \in S : QLe(y, x)

\* C5: prepare_tree_input and preprocess_for_ptrees winsorize, then rescale,
\* then fill; the percentiles and the min/max of a date are taken from the
\* genuine non-missing observations of that date only.
C5_StatsFromGenuine ==
    /\ nlog = SubSeq(<<"winsorize", "standardize", "fill">>, 1, Len(nlog))
    /\ \A d \in Dates :
          /\ wstat[d].rows # {} =>
                /\ wstat[d].rows = Genuine(d)
                /\ wstat[d].lo = Quantile(SortedVals(panel0, Genuine(d)), LowerPct, PctDen)
                /\ wstat[d].hi = Quantile(SortedVals(panel0, Genuine(d)), UpperPct, PctDen)
          /\ sstat[d].rows # {} =>
                /\ sstat[d].rows = Genuine(d)
                /\ sstat[d].lo = Least({Winsorized(r) : r \in Genuine(d)})
                /\ sstat[d].hi = Greatest({Winsorized(r) : r \in Genuine(d)})

\* all three steps ran on a date that holds a missing value next to enough
\* observations for both statistics, and the filled value lies apart from them
C5_Witness ==
    /\ NormDone
    /\ variant = "ptree_prep"
    /\ \E d \in Dates :
          /\ Genuine(d) # RowsAt(d)
          /\ wstat[d].rows # {} /\ sstat[d].rows # {}
          /\ sstat[d].lo # sstat[d].hi
          /\ \A r \in Genuine(d) : QLt(FillValue, panel0[r])

-----------------------------------------------------------------------------
(* fetch_working_data: time axis and table helpers                         *)

\* Every month has three instants: 3m-2 is a day inside month m, 3m-1 is the
\* month-end day at 00:00 and 3m is the month-end at 23:59:59.999999999.
NMonths == 24                \* months from fund_start to end_date
PriceStartMonth == 12        \* price_start is December of fund_start's year
MidMonth(m) == 3 * m - 2
MonthEndDay(m) == 3 * m - 1
to_period_M(ts) == (ts + 2) \div 3
end_time(m) == 3 * m
dt_date(ts) == IF ts % 3 = 0 THEN ts - 1 ELSE ts

Rics == {1, 2}

RECURSIVE QSum(_)
QSum(s) == IF s = <<>> THEN I(0) ELSE QAdd(s[1], QSum(Tail(s)))

RECURSIVE QProd(_)
QProd(s) == IF s = <<>> THEN I(1) ELSE QMul(s[1], QProd(Tail(s)))

RECURSIVE Concat(_)
Concat(ss) == IF ss = <<>> THEN <<>> ELSE ss[1] \o Concat(Tail(ss))

Max2(a, b) == IF a > b THEN a ELSE b

RicDateLess(a, b) == a.ric < b.ric \/ (a.ric = b.ric /\ a.date < b.date)

\* "FQ" sorts before "FY"
FreqRank(f) == IF f = "FQ" THEN 1 ELSE 2

RicDateFreqLess(a, b) ==
    \/ RicDateLess(a, b)
    \/ (a.ric = b.ric /\ a.date = b.date /\ FreqRank(a.freq) < FreqRank(b.freq))

\* the rics of a table in order of first appearance
UniqueRics(t) ==
    SelectSeq([r \in 1..Cardinality(Rics) |-> r],
              LAMBDA r : \E i \in 1..Len(t) : t[i].ric = r)

\* groupby('ric'): the rows of each ric, in table order
Groups(t) ==
    LET rics == UniqueRics(t)
    IN [k \in 1..Len(rics) |-> SelectSeq(t, LAMBDA r : r.ric = rics[k])]

\* the non-missing values of col in the window of K rows of group g ending at n
WindowVals(g, col, n, K) ==
    LET w == SubSeq(g, Max2(1, n - K + 1), n)
    IN SelectSeq([j \in 1..Len(w) |-> w[j][col]], NotNa)

\* a rolling sum without the floor: any valid period in the window suffices
RollingSumNoFloor(g, col, n, K, minp) ==
    LET v == WindowVals(g, col, n, K)
    IN IF Len(v) >= 1 THEN QSum(v) ELSE NaN

\* rolling(K, min_periods=minp).sum() at row n of group g
RollingSum(g, col, n, K, minp) ==
    LET v == WindowVals(g, col, n, K)
    IN IF Len(v) >= minp THEN QSum(v) ELSE NaN

\* rolling(K, min_periods=minp).mean()
RollingMean(g, col, n, K, minp) ==
    LET v == WindowVals(g, col, n, K)
    IN IF Len(v) >= minp /\ Len(v) > 0 THEN QDiv(QSum(v), I(Len(v))) ELSE NaN

\* rolling(K, min_periods=minp).var(), ddof = 1
RollingVar(g, col, n, K, minp) ==
    LET v == WindowVals(g, col, n, K)
        mean == QDiv(QSum(v), I(Len(v)))
        sq == [j \in 1..Len(v) |-> QMul(QSub(v[j], mean), QSub(v[j], mean))]
    IN IF Len(v) >= minp /\ Len(v) > 1 THEN QDiv(QSum(sq), I(Len(v) - 1)) ELSE NaN

\* rolling(K, min_periods=minp).std()
RollingStd(g, col, n, K, minp) == Sqrt(RollingVar(g, col, n, K, minp))

\* rolling(K, min_periods=minp).apply(np.prod, raw=True)
RollingProd(g, col, n, K, minp) ==
    LET v == WindowVals(g, col, n, K)
    IN IF Len(v) < minp THEN NaN
       ELSE IF Len(v) < n - Max2(1, n - K + 1) + 1 THEN NaN
       ELSE QProd(v)

\* shift(k) within the group
Shift(g, col, n, k) == IF n > k THEN g[n - k][col] ELSE NaN

\* ffill() within the group: the last non-missing value up to row n
RECURSIVE FfillAt(_, _, _)
FfillAt(g, col, n) ==
    IF n = 0 THEN NaN
    ELSE IF NotNa(g[n][col]) THEN g[n][col]
    ELSE FfillAt(g, col, n - 1)

\* pct_change() within the group; pad says whether NaN are padded first
PctChange(g, col, n, pad) ==
    LET cur == IF pad THEN FfillAt(g, col, n) ELSE g[n][col]
        prv == IF n < 2 THEN NaN
               ELSE IF pad THEN FfillAt(g, col, n - 1)
               ELSE g[n - 1][col]
    IN QSub(QDiv(cur, prv), I(1))

\* a column computed per ric and assigned back; t is sorted by ric, so the
\* groups in order are the table
AddCol(t, col, F(_, _)) ==
    LET gs == Groups(t)
    IN Concat([k \in 1..Len(gs) |->
                 [n \in 1..Len(gs[k]) |-> (col :> F(gs[k], n)) @@ gs[k][n]]])

\* a column computed row by row
RowCol(t, col, F(_)) == [i \in 1..Len(t) |-> (col :> F(t[i])) @@ t[i]]

-----------------------------------------------------------------------------
(* fetch_working_data: the vendor's answers                                *)

NPrice == NMonths - PriceStartMonth + 1

\* date_range(start=price_start, end=end_date, freq='M'): month ends at 00:00
date_range == [i \in 1..NPrice |-> MonthEndDay(PriceStartMonth + i - 1)]

\* pd.date_range(fund_start month end_time, end_date month end_time, freq='M')
monthly_dates == [m \in 1..NMonths |-> end_time(m)]

\* Where ric 1 may have a report, and how complete the report may be:
\* 1 = every field, 2 = no net income/revenue, 3 = no equity/shares.
FundSlots == <<
    [date |-> MidMonth(2),    freq |-> "FQ", opts |-> {0, 1, 2}],
    [date |-> MonthEndDay(3), freq |-> "FQ", opts |-> {0, 1, 3}],
    [date |-> MonthEndDay(3), freq |-> "FY", opts |-> {0, 1}],
    [date |-> MonthEndDay(5), freq |-> "FQ", opts |-> {0, 1}],
    [date |-> MidMonth(6),    freq |-> "FY", opts |-> {0, 1}],
    [date |-> MonthEndDay(8), freq |-> "FQ", opts |-> {0, 1, 2}],
    [date |-> MonthEndDay(17), freq |-> "FQ", opts |-> {0, 1}] >>

Report(ric, n, opt) ==
    [ric |-> ric, date |-> FundSlots[n].date, freq |-> FundSlots[n].freq,
     net_income |-> IF opt = 2 THEN NaN ELSE I(Pow2(n - 1)),
     revenue |-> IF opt = 2 THEN NaN ELSE I(3 * Pow2(n - 1)),
     shareholders_equity |-> IF opt = 3 THEN NaN ELSE I(10 * n),
     shares_outstanding |-> IF opt = 3 THEN NaN ELSE IF n = 4 THEN I(0) ELSE I(10),
     total_assets |-> I(20 * n)]

\* ric 2 always reports the same two quarters
Ric2Reports == <<
    [ric |-> 2, date |-> MonthEndDay(1), freq |-> "FQ", net_income |-> I(1000),
     revenue |-> I(3000), shareholders_equity |-> I(7), shares_outstanding |-> I(5),
     total_assets |-> I(50)],
    [ric |-> 2, date |-> MonthEndDay(4), freq |-> "FQ", net_income |-> I(2000),
     revenue |-> I(6000), shareholders_equity |-> I(9), shares_outstanding |-> I(5),
     total_assets |-> I(60)] >>

SlotChoices == {c \in [1..Len(FundSlots) -> 0..3] :
                   \A n \in 1..Len(FundSlots) : c[n] \in FundSlots[n].opts}

\* one vendor answer per frequency: the rows of both rics for that frequency
FundPart(c, freq) ==
    LET idx == SelectSeq([n \in 1..Len(FundSlots) |-> n],
                         LAMBDA n : c[n] # 0 /\ FundSlots[n].freq = freq)
    IN [k \in 1..Len(idx) |-> Report(1, idx[k], c[idx[k]])]
       \o SelectSeq(Ric2Reports, LAMBDA r : r.freq = freq)

\* the vendor's monthly arrays for ric 1: complete, or two months short
PriceKinds == {1, 2}
PriceArrays(kind) ==
    LET n == IF kind = 1 THEN NPrice ELSE NPrice - 2
    IN [adj_close |-> [i \in 1..n |-> I(1 + (i % 3))],
        volume_msum |-> [i \in 1..n |-> IF i % 4 = 0 THEN NaN
                                         ELSE IF i % 4 = 1 THEN I(0) ELSE I(i)]]

Ric2Prices ==
    [adj_close |-> [i \in 1..NPrice |-> I(2 + (i % 2))],
     volume_msum |-> [i \in 1..NPrice |-> I(4)]]

-----------------------------------------------------------------------------
(* fetch_working_data: the stages                                          *)

\* "Pad or truncate if length mismatch"
PadTo(values, n) == [i \in 1..n |-> IF i <= Len(values) THEN values[i] ELSE NaN]

\* stages 2-3: one frame per ric, month-end dates, returns, volume fill
PricesStage(rp, pad) ==
    LET ric_df(ric) ==
            [i \in 1..NPrice |->
                [ric |-> ric,
                 date |-> dt_date(end_time(to_period_M(date_range[i]))),
                 adj_close |-> PadTo(rp[ric].adj_close, NPrice)[i],
                 volume_msum |-> PadTo(rp[ric].volume_msum, NPrice)[i]]]
        all == SortSeq(ric_df(1) \o ric_df(2), RicDateLess)
        withRet == AddCol(all, "ret", LAMBDA g, n : PctChange(g, "adj_close", n, pad))
    IN [i \in 1..Len(withRet) |->
           [withRet[i] EXCEPT !.volume_msum =
               IF IsNaN(@) THEN I(0) ELSE @]]

\* drop_duplicates keeping the last row of each key
DropDuplicatesKeepLast(t) ==
    LET keep == SelectSeq([i \in 1..Len(t) |-> i], LAMBDA i :
                    \A j \in (i + 1)..Len(t) :
                        ~(t[j].ric = t[i].ric /\ t[j].date = t[i].date))
    IN [k \in 1..Len(keep) |-> t[keep[k]]]

\* drop_duplicates(['ric', 'date'], keep='first')
DropDuplicates(t) ==
    LET keep == SelectSeq([i \in 1..Len(t) |-> i], LAMBDA i :
                    \A j \in 1..(i - 1) : ~(t[j].ric = t[i].ric /\ t[j].date = t[i].date))
    IN [k \in 1..Len(keep) |-> t[keep[k]]]

FundCols == {"net_income", "revenue", "shareholders_equity",
             "shares_outstanding", "total_assets"}

DropFreq(r) == [f \in (DOMAIN r) \ {"freq"} |-> r[f]]

\* "Combine and process fundamentals": concat, sort, prefer FQ over FY
CombineStage(rf) ==
    LET parts == SelectSeq(rf, LAMBDA part : part # <<>>)
        sorted == SortSeq(Concat(parts), RicDateFreqLess)
        kept == DropDuplicates(sorted)
    IN [i \in 1..Len(kept) |-> DropFreq(kept[i])]

TtmWindow == 4
TtmMinPeriods == 4

ttm_fields == <<<<"net_income", "ni_ttm">>, <<"revenue", "sales_ttm">>>>

\* "Building TTM calculations": rolling(4, min_periods=4).sum() per ric
RECURSIVE TtmLoop(_, _)
TtmLoop(t, k) ==
    IF k = 0 THEN t
    ELSE AddCol(TtmLoop(t, k - 1), ttm_fields[k][2],
                LAMBDA g, n : RollingSum(g, ttm_fields[k][1], n, TtmWindow, TtmMinPeriods))

TtmStage(f) == TtmLoop(SortSeq(f, RicDateLess), Len(ttm_fields))

\* a reindex without a fill method: only a report dated on the grid date
ReindexExact(g, date) ==
    LET eq == SelectSeq(g, LAMBDA r : r.date = date)
    IN IF eq = <<>> THEN <<>> ELSE <<eq[Len(eq)]>>

\* set_index('date').reindex(monthly_dates, method='ffill') for one grid date
ReindexFfill(g, date) ==
    LET le == SelectSeq(g, LAMBDA r : r.date <= date)
    IN IF le = <<>> THEN <<>> ELSE <<le[Len(le)]>>

NaNRow(cols) == [c \in cols |-> NaN]

\* "Forward-filling fundamentals to monthly frequency"
FfillStage(f) ==
    IF f = <<>> THEN f
    ELSE LET cols == (DOMAIN f[1]) \ {"ric", "date"}
             rics == UniqueRics(f)
             ric_data(ric) ==
                 LET g == SelectSeq(f, LAMBDA r : r.ric = ric)
                 IN [m \in 1..Len(monthly_dates) |->
                        LET hit == ReindexFfill(g, monthly_dates[m])
                            vals == IF hit = <<>> THEN NaNRow(cols)
                                    ELSE [c \in cols |-> hit[1][c]]
                        IN [ric |-> ric, date |-> monthly_dates[m]] @@ vals]
         IN Concat([k \in 1..Len(rics) |-> ric_data(rics[k])])

AvgWindow == 12
AvgMinPeriods == 12
LagMonths == 6

\* "Computing 12-month averages and lags"
AvgLagStage(f) ==
    LET t == SortSeq(f, RicDateLess)
        a == AddCol(t, "assets_avg", LAMBDA g, n :
                 RollingMean(g, "total_assets", n, AvgWindow, AvgMinPeriods))
        e == AddCol(a, "equity_avg", LAMBDA g, n :
                 RollingMean(g, "shareholders_equity", n, AvgWindow, AvgMinPeriods))
    IN AddCol(e, "book_equity_lag6m", LAMBDA g, n :
                 Shift(g, "shareholders_equity", n, LagMonths))

PriceCols == {"adj_close", "volume_msum", "ret"}

Cols(t) == IF t = <<>> THEN {} ELSE (DOMAIN t[1]) \ {"ric", "date"}

HasCol(t, col) == t # <<>> /\ col \in DOMAIN t[1]

Find(t, ric, date) == SelectSeq(t, LAMBDA r : r.ric = ric /\ r.date = date)

\* pd.merge(prices, fundamentals, on=['ric', 'date'], how='outer')
OuterMerge(p, f) ==
    LET onlyF == SelectSeq(f, LAMBDA r : Find(p, r.ric, r.date) = <<>>)
        left == [i \in 1..Len(p) |->
                    LET fr == Find(f, p[i].ric, p[i].date)
                    IN p[i] @@ (IF fr = <<>> THEN NaNRow(Cols(f)) ELSE fr[1])]
        right == [i \in 1..Len(onlyF) |-> onlyF[i] @@ NaNRow(Cols(p))]
    IN SortSeq(left \o right, RicDateLess)

\* "Merging prices and fundamentals"
MergeStage(p, f) ==
    IF p # <<>> /\ f # <<>> THEN OuterMerge(p, f)
    ELSE IF p # <<>> THEN p
    ELSE f

MomWindow == 11
RvarWindow == 3

\* num / den on the rows where both are present and den is not 0
MaskedDiv(num, den) ==
    IF NotNa(num) /\ NotNa(den) /\ ~IsZero(den) THEN QDiv(num, den) ELSE NaN

\* "Computing derived fields (only when inputs exist)"; the vendor fields of
\* this model leave close, operating income, gross profit and debt out, so
\* the fields derived from them are not computed
DeriveStage(m0, pad) ==
    LET m == SortSeq(m0, RicDateLess)
        hasFund == HasCol(m, "shares_outstanding")
        f1 == RowCol(m, "mkt_cap", LAMBDA r :
                 IF NotNa(r.adj_close) /\ NotNa(r.shares_outstanding)
                    /\ ~IsZero(r.shares_outstanding)
                 THEN QMul(r.adj_close, r.shares_outstanding) ELSE NaN)
        f2 == RowCol(f1, "size", LAMBDA r :
                 IF NotNa(r.mkt_cap) /\ QLt(I(0), r.mkt_cap) THEN Log(r.mkt_cap) ELSE NaN)
        f3 == RowCol(f2, "sp", LAMBDA r : MaskedDiv(r.sales_ttm, r.mkt_cap))
        f4 == RowCol(f3, "bm", LAMBDA r : MaskedDiv(r.book_equity_lag6m, r.mkt_cap))
        f5 == AddCol(f4, "sgr", LAMBDA g, n : PctChange(g, "sales_ttm", n, pad))
        f6 == AddCol(f5, "assets_growth", LAMBDA g, n : PctChange(g, "total_assets", n, pad))
        f7 == RowCol(f6, "pm", LAMBDA r : MaskedDiv(r.ni_ttm, r.sales_ttm))
        f8 == RowCol(f7, "roe", LAMBDA r : MaskedDiv(r.ni_ttm, r.equity_avg))
        f9 == RowCol(f8, "ato", LAMBDA r : MaskedDiv(r.sales_ttm, r.assets_avg))
        f10 == AddCol(f9, "issuance_eq", LAMBDA g, n :
                  LET lag == Shift(g, "shares_outstanding", n, 12)
                  IN IF NotNa(g[n].shares_outstanding) /\ NotNa(lag) /\ ~IsZero(lag)
                     THEN QSub(QDiv(g[n].shares_outstanding, lag), I(1)) ELSE NaN)
        f11 == RowCol(f10, "turnover", LAMBDA r :
                  MaskedDiv(r.volume_msum, r.shares_outstanding))
        f12 == AddCol(f11, "std_turn_3m", LAMBDA g, n :
                  RollingStd(g, "turnover", n, RvarWindow, RvarWindow))
        liq == IF hasFund THEN f12 ELSE m
        lagged == AddCol(liq, "ret_lagged", LAMBDA g, n : QAdd(I(1), Shift(g, "ret", n, 1)))
        mom == AddCol(lagged, "mom_12_1", LAMBDA g, n :
                   QSub(RollingProd(g, "ret_lagged", n, MomWindow, MomWindow), I(1)))
        mom6 == AddCol(mom, "mom_6", LAMBDA g, n :
                   QSub(RollingProd(g, "ret_lagged", n, 5, 5), I(1)))
        mom36 == AddCol(mom6, "mom_36", LAMBDA g, n :
                   QSub(RollingProd(g, "ret_lagged", n, 35, 35), I(1)))
        rvar == AddCol(mom36, "rvar_3m", LAMBDA g, n :
                   RollingVar(g, "ret", n, RvarWindow, RvarWindow))
    IN IF ~HasCol(m, "ret") THEN liq
       ELSE [i \in 1..Len(rvar) |->
               [c \in (DOMAIN rvar[i]) \ {"ret_lagged"} |-> rvar[i][c]]]

\* the vendor's answers had the request been made on date c: nothing dated later
CutFund(rf, c) == [k \in 1..Len(rf) |-> SelectSeq(rf[k], LAMBDA r : r.date <= c)]

CutPrices(rp, c) ==
    LET n == Cardinality({i \in 1..NPrice : date_range[i] <= c})
        cutArr(a) == SubSeq(a, 1, IF Len(a) < n THEN Len(a) ELSE n)
    IN [ric \in Rics |-> [adj_close |-> cutArr(rp[ric].adj_close),
                          volume_msum |-> cutArr(rp[ric].volume_msum)]]

CutDates == {MonthEndDay(15), MonthEndDay(20)}

-----------------------------------------------------------------------------
(* pipieline.py: the same fundamentals path, written a second time.  Its   *)
(* monthly axis is the same months, at 00:00 of the month-end day.         *)

month_index == [m \in 1..NMonths |-> MonthEndDay(m)]

\* "Prefer quarterly; fill missing from annual on the same report date"
fetch_fundamentals(rf) ==
    LET q == rf[1]
        a == rf[2]
        filled == [i \in 1..Len(q) |->
                     LET ar == Find(a, q[i].ric, q[i].date)
                     IN [c \in (DOMAIN q[i]) \ {"freq"} |->
                           IF c \in FundCols /\ IsNaN(q[i][c]) /\ ar # <<>>
                           THEN ar[1][c] ELSE q[i][c]]]
    IN IF q = <<>> THEN [i \in 1..Len(a) |-> DropFreq(a[i])]
       ELSE IF a = <<>> THEN [i \in 1..Len(q) |-> DropFreq(q[i])]
       ELSE filled

build_ttm(df) == TtmLoop(SortSeq(df, RicDateLess), Len(ttm_fields))

\* reindex(month_index) keeps the reports dated on a grid date; then each
\* column is forward-filled on its own
forward_fill_fundamentals_monthly(df) ==
    IF df = <<>> THEN df
    ELSE LET t == SortSeq(df, RicDateLess)
             cols == Cols(t)
             rics == UniqueRics(t)
             grid(ric) ==
                 [m \in 1..Len(month_index) |->
                     LET hit == Find(t, ric, month_index[m])
                     IN [ric |-> ric, date |-> month_index[m]]
                        @@ (IF hit = <<>> THEN NaNRow(cols)
                            ELSE [c \in cols |-> hit[1][c]])]
             filled(g) == [n \in 1..Len(g) |->
                             [ric |-> g[n].ric, date |-> g[n].date]
                             @@ [c \in cols |-> FfillAt(g, c, n)]]
         IN Concat([k \in 1..Len(rics) |-> filled(grid(rics[k]))])

add_monthly_avgs_and_lags(df) ==
    LET t == SortSeq(df, RicDateLess)
        a == AddCol(t, "assets_avg", LAMBDA g, n :
                 RollingMean(g, "total_assets", n, AvgWindow, AvgMinPeriods))
        e == AddCol(a, "equity_avg", LAMBDA g, n :
                 RollingMean(g, "shareholders_equity", n, AvgWindow, AvgMinPeriods))
    IN AddCol(e, "be_lag6m", LAMBDA g, n :
                 Shift(g, "shareholders_equity", n, LagMonths))

-----------------------------------------------------------------------------
(* The two programs as state machines                                      *)

NormIdle ==
    /\ variant = "none"
    /\ panel0 = <<>>
    /\ panel = <<>>
    /\ nidx = 0
    /\ nlog = <<>>
    /\ wstat = <<>>
    /\ sstat = <<>>

VendorFund(c) == <<FundPart(c, "FQ"), FundPart(c, "FY")>>

VendorPrices(kind) ==
    [ric \in Rics |-> IF ric = 1 THEN PriceArrays(kind) ELSE Ric2Prices]

InitFetch ==
    /\ pc = "prices"
    /\ \E kind \in PriceKinds : rawPrices = VendorPrices(kind)
    /\ \E c \in SlotChoices : rawFund = VendorFund(c)
    /\ padFill \in BOOLEAN
    /\ cut \in CutDates

InitPipieline ==
    /\ pc = "p_fetch"
    /\ rawPrices = VendorPrices(1)
    /\ \E c \in SlotChoices : rawFund = VendorFund(c)
    /\ padFill = FALSE
    /\ cut = 0

Init ==
    /\ NormIdle
    /\ AuxIdle
    /\ CallIdle
    /\ InitFetch \/ InitPipieline
    /\ prices = <<>>
    /\ fundamentals = <<>>
    /\ merged = <<>>
    /\ twin = TwinIdle
    /\ universe = <<>>

\* every stage is run a second time on the vendor's answers as they stood at
\* the date cut; twin holds that second run's tables
FetchPrices ==
    /\ pc = "prices"
    /\ prices' = PricesStage(rawPrices, padFill)
    /\ twin' = [twin EXCEPT !.prices = PricesStage(CutPrices(rawPrices, cut), padFill)]
    /\ pc' = "combine"
    /\ UNCHANGED <<rawPrices, rawFund, padFill, fundamentals, merged, cut, universe>>
    /\ UNCHANGED normVars
    /\ UNCHANGED auxVars
    /\ UNCHANGED callVars

CombineFundamentals ==
    /\ pc = "combine"
    /\ fundamentals' = CombineStage(rawFund)
    /\ twin' = [twin EXCEPT !.fundamentals = CombineStage(CutFund(rawFund, cut))]
    /\ pc' = "ttm"
    /\ UNCHANGED <<rawPrices, rawFund, padFill, prices, merged, cut, universe>>
    /\ UNCHANGED normVars
    /\ UNCHANGED auxVars
    /\ UNCHANGED callVars

BuildTtm ==
    /\ pc = "ttm"
    /\ fundamentals' = TtmStage(fundamentals)
    /\ twin' = [twin EXCEPT !.fundamentals = TtmStage(@)]
    /\ pc' = "ffill"
    /\ UNCHANGED <<rawPrices, rawFund, padFill, prices, merged, cut, universe>>
    /\ UNCHANGED normVars
    /\ UNCHANGED auxVars
    /\ UNCHANGED callVars

ForwardFill ==
    /\ pc = "ffill"
    /\ fundamentals' = FfillStage(fundamentals)
    /\ twin' = [twin EXCEPT !.fundamentals = FfillStage(@)]
    /\ pc' = "avglag"
    /\ UNCHANGED <<rawPrices, rawFund, padFill, prices, merged, cut, universe>>
    /\ UNCHANGED normVars
    /\ UNCHANGED auxVars
    /\ UNCHANGED callVars

AvgsAndLags ==
    /\ pc = "avglag"
    /\ fundamentals' = AvgLagStage(fundamentals)
    /\ twin' = [twin EXCEPT !.fundamentals = AvgLagStage(@)]
    /\ pc' = "merge"
    /\ UNCHANGED <<rawPrices, rawFund, padFill, prices, merged, cut, universe>>
    /\ UNCHANGED normVars
    /\ UNCHANGED auxVars
    /\ UNCHANGED callVars

MergeTables ==
    /\ pc = "merge"
    /\ merged' = MergeStage(prices, fundamentals)
    /\ twin' = [twin EXCEPT !.merged = MergeStage(twin.prices, twin.fundamentals)]
    /\ pc' = "derive"
    /\ UNCHANGED <<rawPrices, rawFund, padFill, prices, fundamentals, cut, universe>>
    /\ UNCHANGED normVars
    /\ UNCHANGED auxVars
    /\ UNCHANGED callVars

DeriveFields ==
    /\ pc = "derive"
    /\ merged' = DeriveStage(merged, padFill)
    /\ twin' = [twin EXCEPT !.merged = DeriveStage(@, padFill)]
    /\ pc' = "done"
    /\ UNCHANGED <<rawPrices, rawFund, padFill, prices, fundamentals, cut, universe>>
    /\ UNCHANGED normVars
    /\ UNCHANGED auxVars
    /\ UNCHANGED callVars

PipiFetchFundamentals ==
    /\ pc = "p_fetch"
    /\ fundamentals' = fetch_fundamentals(rawFund)
    /\ pc' = "p_ttm"
    /\ UNCHANGED <<rawPrices, rawFund, padFill, prices, merged, cut, twin, universe>>
    /\ UNCHANGED normVars
    /\ UNCHANGED auxVars
    /\ UNCHANGED callVars

PipiBuildTtm ==
    /\ pc = "p_ttm"
    /\ fundamentals' = build_ttm(fundamentals)
    /\ pc' = "p_ffill"
    /\ UNCHANGED <<rawPrices, rawFund, padFill, prices, merged, cut, twin, universe>>
    /\ UNCHANGED normVars
    /\ UNCHANGED auxVars
    /\ UNCHANGED callVars

PipiForwardFill ==
    /\ pc = "p_ffill"
    /\ fundamentals' = forward_fill_fundamentals_monthly(fundamentals)
    /\ pc' = "p_avglag"
    /\ UNCHANGED <<rawPrices, rawFund, padFill, prices, merged, cut, twin, universe>>
    /\ UNCHANGED normVars
    /\ UNCHANGED auxVars
    /\ UNCHANGED callVars

PipiAvgsAndLags ==
    /\ pc = "p_avglag"
    /\ fundamentals' = add_monthly_avgs_and_lags(fundamentals)
    /\ pc' = "p_done"
    /\ UNCHANGED <<rawPrices, rawFund, padFill, prices, merged, cut, twin, universe>>
    /\ UNCHANGED normVars
    /\ UNCHANGED auxVars
    /\ UNCHANGED callVars

Next ==
    \/ FetchPrices
    \/ CombineFundamentals
    \/ BuildTtm
    \/ ForwardFill
    \/ AvgsAndLags
    \/ MergeTables
    \/ DeriveFields
    \/ PipiFetchFundamentals
    \/ PipiBuildTtm
    \/ PipiForwardFill
    \/ PipiAvgsAndLags

Spec == Init /\ [][Next]_vars

-----------------------------------------------------------------------------
(* src/: merge_all and the characteristics computed on its panel           *)

PanelMonths == 14

PanelFundCols == {"commonsharesoutstanding", "shareholdersequity", "netincome",
                  "totalassets", "operatingincome", "revenue", "grossprofit",
                  "totaldebt", "cashfromoperations"}

\* the columns a merge leaves empty on a row without a match
Missing(cols) == [c \in cols |-> IF c = "freq" THEN "NaN" ELSE NaN]

\* l.merge(r, on=['ric', 'date'], how='left')
LeftMerge(l, r, rcols) ==
    Concat([i \in 1..Len(l) |->
              LET hit == Find(r, l[i].ric, l[i].date)
              IN IF hit = <<>> THEN <<l[i] @@ Missing(rcols)>>
                 ELSE [j \in 1..Len(hit) |-> l[i] @@ hit[j]]])

\* pd.to_datetime(...).dt.normalize() on every row
Normalize(t) == [i \in 1..Len(t) |-> [t[i] EXCEPT !.date = dt_date(@)]]

\* sort_values(['ric', 'date']).groupby('ric').apply(lambda g: g.ffill())
GroupFfill(t, cols) ==
    LET gs == Groups(SortSeq(t, RicDateLess))
    IN Concat([k \in 1..Len(gs) |->
                 [n \in 1..Len(gs[k]) |->
                     [c \in cols |-> FfillAt(gs[k], c, n)] @@ gs[k][n]]])

PanelPriceCols == {"close", "volume", "adj_close", "ret"}

merge_all(uni, pr, fund) ==
    LET panel1 == LeftMerge(Normalize(uni), Normalize(pr), PanelPriceCols)
        filled == GroupFfill(Normalize(fund), PanelFundCols)
        panel2 == IF fund # <<>>
                  THEN LeftMerge(panel1, filled, PanelFundCols \cup {"freq"})
                  ELSE panel1
    IN IF HasCol(panel2, "commonsharesoutstanding")
       THEN [i \in 1..Len(panel2) |->
               ("mkt_cap" :> QMul(panel2[i].commonsharesoutstanding, panel2[i].adj_close))
               @@ panel2[i]]
       ELSE panel2

\* groupby('ric')[col].shift(1).rolling(K).apply(prod(1 + x) - 1 if enough):
\* the shift is per ric, the rolling window runs over the rows of the table,
\* and a window with a missing value never reaches the function
ShiftedRollingMom(t, i, K) ==
    LET shifted(j) == IF j >= 2 /\ t[j - 1].ric = t[j].ric THEN t[j - 1].ret ELSE NaN
        w == [k \in 1..K |-> shifted(i - K + k)]
    IN IF i < K THEN NaN
       ELSE IF \E k \in 1..K : IsNaN(w[k]) THEN NaN
       ELSE QSub(QProd([k \in 1..K |-> QAdd(I(1), w[k])]), I(1))

MomCol(t, col, K) == [i \in 1..Len(t) |-> (col :> ShiftedRollingMom(t, i, K)) @@ t[i]]

compute_core_characteristics(panel_in, pad) ==
    LET df == SortSeq(panel_in, RicDateLess)
        c1 == RowCol(df, "size", LAMBDA r : Log(r.mkt_cap))
        c2 == RowCol(c1, "bm", LAMBDA r : QDiv(r.shareholdersequity, r.mkt_cap))
        c3 == MomCol(c2, "mom_12_1", 11)
        c4 == RowCol(c3, "op_prof", LAMBDA r : QDiv(r.operatingincome, r.totalassets))
        c5 == AddCol(c4, "assets_growth", LAMBDA g, n : PctChange(g, "totalassets", n, pad))
        c6 == RowCol(c5, "turnover", LAMBDA r : QDiv(r.volume, r.commonsharesoutstanding))
        c7 == RowCol(c6, "dolvol", LAMBDA r : QMul(r.volume, r.adj_close))
        c8 == RowCol(c7, "zerotrade", LAMBDA r : IF IsZero(r.volume) THEN I(1) ELSE I(0))
    IN RowCol(c8, "roe", LAMBDA r : QDiv(r.netincome, r.shareholdersequity))

\* np.where(denom != 0, num / denom, np.nan)
GuardedDiv(num, denom) == IF IsZero(denom) THEN NaN ELSE QDiv(num, denom)

compute_extended_characteristics(panel_in, pad) ==
    LET df == SortSeq(panel_in, RicDateLess)
        m1 == RowCol(df, "grossmargin", LAMBDA r : GuardedDiv(r.grossprofit, r.revenue))
        m2 == RowCol(m1, "operatingmargin", LAMBDA r : GuardedDiv(r.operatingincome, r.revenue))
        m3 == RowCol(m2, "debttoassets", LAMBDA r : GuardedDiv(r.totaldebt, r.totalassets))
        e1 == RowCol(m3, "ep", LAMBDA r : QDiv(r.netincome, r.mkt_cap))
        e2 == RowCol(e1, "cfp", LAMBDA r : QDiv(r.cashfromoperations, r.mkt_cap))
        e3 == RowCol(e2, "sp", LAMBDA r : QDiv(r.revenue, r.mkt_cap))
        e4 == AddCol(e3, "sgr", LAMBDA g, n : PctChange(g, "revenue", n, pad))
        e5 == RowCol(e4, "pm", LAMBDA r : GuardedDiv(r.netincome, r.revenue))
        e6 == RowCol(e5, "gma", LAMBDA r : QDiv(r.grossprofit, r.totalassets))
        e7 == RowCol(e6, "leverage", LAMBDA r : QDiv(r.totaldebt, r.totalassets))
        e8 == RowCol(e7, "noa", LAMBDA r : NaN)
        e9 == AddCol(e8, "std_turn_3m", LAMBDA g, n : RollingStd(g, "turnover", n, 3, 2))
        e10 == AddCol(e9, "std_dolvol_3m", LAMBDA g, n : RollingStd(g, "dolvol", n, 3, 2))
        e11 == AddCol(e10, "rvar_3m", LAMBDA g, n : RollingVar(g, "ret", n, 3, 2))
        e12 == MomCol(e11, "mom_6m", 5)
    IN MomCol(e12, "mom_36m", 35)

\* the membership: every ric in every month, dated on the month-end day
Universe ==
    Concat([m \in 1..PanelMonths |->
              [k \in 1..Cardinality(Rics) |-> [date |-> MonthEndDay(m), ric |-> k]]])

\* pull_prices' table: complete, or with a month without a price and months
\* without trading
PanelPrices(kind, pad) ==
    LET row(ric, m) ==
            [ric |-> ric, date |-> MonthEndDay(m),
             close |-> I(1 + ((m + ric) % 3)),
             adj_close |-> IF kind = 2 /\ ric = 1 /\ m = 5 THEN NaN
                           ELSE I(1 + ((m + ric) % 3)),
             volume |-> IF kind = 2 /\ m % 4 = 2 THEN I(0)
                        ELSE IF kind = 2 /\ m % 4 = 3 THEN NaN
                        ELSE I(2 * ric + (m % 2))]
        t == Concat([ric \in 1..Cardinality(Rics) |->
                        [m \in 1..PanelMonths |-> row(ric, m)]])
    IN AddCol(t, "ret", LAMBDA g, n : PctChange(g, "adj_close", n, pad))

\* a report as pull_fundamentals returns it; profile 2 has no shares
\* outstanding, profile 3 zero denominators, profile 4 missing fields
PanelReport(ric, date, freq, k, profile) ==
    [ric |-> ric, date |-> date, freq |-> freq,
     commonsharesoutstanding |-> IF profile = 2 THEN I(0)
                                 ELSE IF profile = 4 THEN NaN ELSE I(10),
     shareholdersequity |-> IF profile = 3 THEN I(0) ELSE I(50 + k),
     netincome |-> IF profile = 4 THEN NaN
                   ELSE IF profile = 3 THEN I(-5) ELSE I(5 + k),
     totalassets |-> IF profile = 3 THEN I(0)
                     ELSE IF profile = 4 THEN NaN ELSE I(100 + k),
     operatingincome |-> I(8 + k),
     revenue |-> IF profile = 3 THEN I(0) ELSE I(40 + k),
     grossprofit |-> I(20 + k),
     totaldebt |-> I(30 + k),
     cashfromoperations |-> I(6 + k)]

PanelSlots == <<
    [date |-> MonthEndDay(1), freq |-> "Q", opts |-> {1, 2, 3, 4}],
    [date |-> MidMonth(3),    freq |-> "Q", opts |-> {0, 1}],
    [date |-> MonthEndDay(4), freq |-> "Q", opts |-> {0, 1, 4}],
    [date |-> MonthEndDay(4), freq |-> "A", opts |-> {0, 1}],
    [date |-> MonthEndDay(13), freq |-> "Q", opts |-> {0, 1}] >>

PanelChoices == {c \in [1..Len(PanelSlots) -> 0..4] :
                    \A n \in 1..Len(PanelSlots) : c[n] \in PanelSlots[n].opts}

PanelFund(c) ==
    LET idx == SelectSeq([n \in 1..Len(PanelSlots) |-> n], LAMBDA n : c[n] # 0)
    IN [k \in 1..Len(idx) |->
          PanelReport(1, PanelSlots[idx[k]].date, PanelSlots[idx[k]].freq, idx[k], c[idx[k]])]
       \o <<PanelReport(2, MonthEndDay(2), "Q", 7, 1)>>

InitPanel ==
    /\ NormIdle
    /\ AuxIdle
    /\ CallIdle
    /\ pc = "merge_all"
    /\ rawPrices = <<>>
    /\ rawFund = <<>>
    /\ padFill \in BOOLEAN
    /\ cut = 0
    /\ twin = TwinIdle
    /\ universe = Universe
    /\ \E kind \in PriceKinds : prices = PanelPrices(kind, padFill)
    /\ \E c \in PanelChoices : fundamentals = PanelFund(c)
    /\ merged = <<>>

MergeAll ==
    /\ pc = "merge_all"
    /\ merged' = merge_all(universe, prices, fundamentals)
    /\ pc' = "core"
    /\ UNCHANGED <<rawPrices, rawFund, padFill, prices, fundamentals, cut, twin, universe>>
    /\ UNCHANGED normVars
    /\ UNCHANGED auxVars
    /\ UNCHANGED callVars

CoreCharacteristics ==
    /\ pc = "core"
    /\ merged' = compute_core_characteristics(merged, padFill)
    /\ pc' = "extended"
    /\ UNCHANGED <<rawPrices, rawFund, padFill, prices, fundamentals, cut, twin, universe>>
    /\ UNCHANGED normVars
    /\ UNCHANGED auxVars
    /\ UNCHANGED callVars

ExtendedCharacteristics ==
    /\ pc = "extended"
    /\ merged' = compute_extended_characteristics(merged, padFill)
    /\ pc' = "final"
    /\ UNCHANGED <<rawPrices, rawFund, padFill, prices, fundamentals, cut, twin, universe>>
    /\ UNCHANGED normVars
    /\ UNCHANGED auxVars
    /\ UNCHANGED callVars

NextPanel ==
    \/ MergeAll
    \/ CoreCharacteristics
    \/ ExtendedCharacteristics

SpecPanel == InitPanel /\ [][NextPanel]_vars

\* the fundamentals of an entity reported up to a date
PanelReportsUpTo(ric, d) ==
    SelectSeq(SortSeq(fundamentals, RicDateLess),
              LAMBDA r : r.ric = ric /\ r.date <= d)

\* C4: merge_all forward-fills fundamentals to month-end: every universe row
\* carries the entity's most recent fundamental values reported on or before
\* its date, also when no report is dated exactly on that month-end.
C4_FfillToMonthEnd ==
    pc # "merge_all" =>
        \A i \in 1..Len(merged) :
            LET reps == PanelReportsUpTo(merged[i].ric, merged[i].date)
            IN reps # <<>> =>
                  \A c \in {"shareholdersequity", "operatingincome"} :
                      merged[i][c] = reps[Len(reps)][c]

RatioInputs ==
    [bm |-> <<"shareholdersequity", "mkt_cap">>,
     op_prof |-> <<"operatingincome", "totalassets">>,
     roe |-> <<"netincome", "shareholdersequity">>,
     turnover |-> <<"volume", "commonsharesoutstanding">>,
     ep |-> <<"netincome", "mkt_cap">>,
     cfp |-> <<"cashfromoperations", "mkt_cap">>,
     sp |-> <<"revenue", "mkt_cap">>,
     gma |-> <<"grossprofit", "totalassets">>,
     leverage |-> <<"totaldebt", "totalassets">>]

\* C9: every ratio characteristic is missing when an input is missing or its
\* denominator is zero, size is missing when mkt_cap <= 0, and no
\* characteristic is +/-infinity.
C9_GuardedRatios ==
    pc = "final" =>
        \A i \in 1..Len(merged) :
            LET r == merged[i]
            IN /\ \A ch \in DOMAIN RatioInputs :
                     LET num == r[RatioInputs[ch][1]]
                         den == r[RatioInputs[ch][2]]
                     IN /\ ~IsInf(r[ch])
                        /\ (IsNaN(num) \/ IsNaN(den) \/ IsZero(den)) => IsNaN(r[ch])
               /\ ~IsInf(r.size)
               /\ (IsNaN(r.mkt_cap) \/ QLe(r.mkt_cap, I(0))) => IsNaN(r.size)

-----------------------------------------------------------------------------
(* Properties of the fundamentals path                                     *)

SeqToSet(s) == {s[i] : i \in DOMAIN s}

\* the vendor's reports of one entity, both frequencies
RawReports(ric) ==
    {r \in SeqToSet(rawFund[1]) \cup SeqToSet(rawFund[2]) : r.ric = ric}

ReportsUpTo(ric, d) == {r \in RawReports(ric) : r.date <= d}

\* the latest report of a set; on one date the quarterly one
MostRecent(S) ==
    CHOOSE r \in S : \A o \in S :
        \/ o.date < r.date
        \/ o.date = r.date /\ FreqRank(r.freq) <= FreqRank(o.freq)

RowsOf(t, ric) == SelectSeq(t, LAMBDA r : r.ric = ric)

SortedByRicDate(t) == \A i \in 1..(Len(t) - 1) : RicDateLess(t[i], t[i + 1])

\* C3: in fetch_working_data's monthly alignment the fundamentals of an
\* entity at month-end m are those of its most recent report dated <= m, and
\* they are missing, never zero, for the months before its first report.
C3_MonthlyAlignment ==
    pc = "avglag" =>
        /\ \A ric \in Rics : \A m \in 1..NMonths :
               RawReports(ric) # {} =>
                   Len(Find(fundamentals, ric, end_time(m))) = 1
        /\ \A i \in 1..Len(fundamentals) :
               LET r == fundamentals[i]
                   S == ReportsUpTo(r.ric, r.date)
               IN IF S = {} THEN \A c \in FundCols : IsNaN(r[c])
                  ELSE \A c \in FundCols : r[c] = MostRecent(S)[c]

\* a month before the first report, and a month whose latest report is from
\* an earlier month
C3_Witness ==
    /\ pc = "avglag"
    /\ \E i, j \in 1..Len(fundamentals) :
          /\ fundamentals[i].ric = 1 /\ fundamentals[j].ric = 1
          /\ ReportsUpTo(1, fundamentals[i].date) = {}
          /\ ReportsUpTo(1, fundamentals[j].date) # {}
          /\ to_period_M(MostRecent(ReportsUpTo(1, fundamentals[j].date)).date)
                 < to_period_M(fundamentals[j].date)
          /\ NotNa(fundamentals[j].shareholders_equity)

TtmTables == {"ffill", "p_ffill"}
AvgTables == {"merge", "p_done"}
LagCol == IF pc = "merge" THEN "book_equity_lag6m" ELSE "be_lag6m"

AllValid(g, col, from, to) == \A k \in from..to : NotNa(g[k][col])

QuarterlyUpTo(ric, d) ==
    SelectSeq(SortSeq(rawFund[1], RicDateLess),
              LAMBDA r : r.ric = ric /\ r.date <= d)

LastFour(s, col) == [k \in 1..TtmWindow |-> s[Len(s) - TtmWindow + k][col]]

\* C7: each TTM flow on a report row is the sum of the entity's four most
\* recent quarterly reports up to that date; an annual figure is never one
\* of the four summed values.
C7_TtmIsFourQuarters ==
    pc \in TtmTables =>
        \A i \in 1..Len(fundamentals) :
            LET r == fundamentals[i]
                q == QuarterlyUpTo(r.ric, r.date)
            IN NotNa(r.ni_ttm) =>
                  /\ Len(q) >= TtmWindow
                  /\ r.ni_ttm = QSum(LastFour(q, "net_income"))

\* C8: a quarterly and an annual observation of one entity on one date leave
\* exactly one combined row, and every field the quarterly observation has a
\* value for takes the quarterly value.
C8_QuarterlyPreferred ==
    pc \in {"ttm", "p_ttm"} =>
        \A q \in SeqToSet(rawFund[1]) : \A a \in SeqToSet(rawFund[2]) :
            (q.ric = a.ric /\ q.date = a.date) =>
                LET rows == Find(fundamentals, q.ric, q.date)
                IN /\ Len(rows) = 1
                   /\ \A c \in FundCols : NotNa(q[c]) => rows[1][c] = q[c]

\* both frequencies report on one date with different figures, one of them
\* missing in the quarterly report
C8_Witness ==
    /\ pc = "ttm"
    /\ \E q \in SeqToSet(rawFund[1]) : \E a \in SeqToSet(rawFund[2]) :
          /\ q.ric = a.ric /\ q.date = a.date
          /\ NotNa(q.net_income) /\ q.net_income # a.net_income
          /\ IsNaN(q.shareholders_equity) /\ NotNa(a.shareholders_equity)

RawAt(ric, col, i) ==
    IF i <= Len(rawPrices[ric][col]) THEN rawPrices[ric][col][i] ELSE NaN

\* C10: missing and zero stay distinct from the raw fetch on: a monthly volume
\* the vendor left missing is missing in the table, and one the vendor
\* reported as 0 is 0 there.
C10_MissingAndZeroDistinct ==
    \A i \in 1..Len(prices) :
        LET r == prices[i]
            k == to_period_M(r.date) - PriceStartMonth + 1
            raw == RawAt(r.ric, "volume_msum", k)
        IN /\ IsNaN(raw) <=> IsNaN(r.volume_msum)
           /\ IsZero(raw) <=> IsZero(r.volume_msum)

C2Cols == FundCols \cup {"ni_ttm", "sales_ttm", "assets_avg", "equity_avg",
                         "book_equity_lag6m", "mom_12_1", "rvar_3m"}

\* the value of a column at (ric, date); missing when the row or column is absent
Val(t, ric, date, col) ==
    LET rows == Find(t, ric, date)
    IN IF rows = <<>> \/ col \notin DOMAIN rows[1] THEN NaN ELSE rows[1][col]

\* C2: no look-ahead: the forward-filled fundamentals, the TTM sums, the
\* averages, the lag, mom_12_1 and rvar_3m at a date d are what the same run
\* yields when every observation dated after d is withheld.
C2_NoLookAhead ==
    pc = "done" =>
        \A i \in 1..Len(merged) :
            merged[i].date <= cut =>
                \A c \in C2Cols \cap DOMAIN merged[i] :
                    merged[i][c] = Val(twin.merged, merged[i].ric, merged[i].date, c)

\* the rows of a table for one entity in one calendar month
RowsInMonth(t, ric, m) == SelectSeq(t, LAMBDA r : r.ric = ric /\ to_period_M(r.date) = m)

\* the entity has a positive price, a positive share count and an observed
\* volume of zero in month m
ZeroVolumeMonth(ric, m) ==
    LET p == RowsInMonth(prices, ric, m)
        f == RowsInMonth(fundamentals, ric, m)
    IN /\ p # <<>> /\ f # <<>>
       /\ QLt(I(0), p[1].adj_close)
       /\ QLt(I(0), f[1].shares_outstanding)
       /\ IsZero(RawAt(ric, "volume_msum", m - PriceStartMonth + 1))

\* C11: mkt_cap is shares_outstanding x adj_close on the rows where both are
\* present and shares_outstanding is not 0, and missing elsewhere; an
\* entity-month with a valid price, a valid share count and zero volume has a
\* row whose size is a value and whose turnover is the value 0.
C11_MktCapAndZeroVolume ==
    pc = "done" =>
        /\ \A i \in 1..Len(merged) :
              LET r == merged[i]
              IN r.mkt_cap =
                    IF NotNa(r.adj_close) /\ NotNa(r.shares_outstanding)
                       /\ ~IsZero(r.shares_outstanding)
                    THEN QMul(r.shares_outstanding, r.adj_close) ELSE NaN
        /\ \A ric \in Rics : \A m \in 1..NMonths :
              ZeroVolumeMonth(ric, m) =>
                 \E i \in 1..Len(merged) :
                    /\ merged[i].ric = ric /\ to_period_M(merged[i].date) = m
                    /\ NotNa(merged[i].size)
                    /\ IsZero(merged[i].turnover)

\* C30: an entity-month that has a price row and an aligned fundamentals row
\* has exactly one merged row, which carries the price fields and the
\* fundamental fields: the price path and the fundamentals grid produce the
\* same date key for the same month.
C30_DateKeysAgree ==
    pc \in {"derive", "done"} =>
        \A ric \in Rics : \A m \in 1..NMonths :
            LET p == RowsInMonth(prices, ric, m)
                f == RowsInMonth(fundamentals, ric, m)
                g == RowsInMonth(merged, ric, m)
            IN (p # <<>> /\ f # <<>>) =>
                  /\ Len(g) = 1
                  /\ g[1].adj_close = p[1].adj_close
                  /\ g[1].total_assets = f[1].total_assets
                  /\ g[1].shares_outstanding = f[1].shares_outstanding

\* the return of an entity in month m as pull_prices reports it
PanelRet(ric, m) == Val(prices, ric, MonthEndDay(m), "ret")

\* C12: mom_12_1 at an entity's row for month t is the product of (1 + r_s)
\* over the months s = t-12 .. t-2, minus 1: the eleven returns of the same
\* entity that end with month t-2, without the return of month t-1.
C12_MomentumWindow ==
    (pc \in {"extended", "final"} /\ Len(merged) = Len(universe)) =>
        \A i \in 1..Len(merged) :
            LET r == merged[i]
                t == to_period_M(r.date)
                gross == [k \in 1..MomWindow |->
                             QAdd(I(1), PanelRet(r.ric, t - MomWindow - 2 + k))]
            IN r.mom_12_1 = QSub(QProd(gross), I(1))

\* the non-missing returns of an entity in the K months that end with month t-1
MomReturns(ric, t, K) ==
    SelectSeq([k \in 1..K |-> PanelRet(ric, t - K - 1 + k)], NotNa)

\* a momentum that needs minObs non-missing returns of its window of K months
MomWithFloor(ric, t, K, minObs) ==
    LET v == MomReturns(ric, t, K)
    IN IF Len(v) >= minObs
       THEN QSub(QProd([k \in 1..Len(v) |-> QAdd(I(1), v[k])]), I(1))
       ELSE NaN

\* C27: mom_12_1 is a value whenever at least 6 of the 11 returns of its
\* window are non-missing, the product being taken over the non-missing ones,
\* and is missing when fewer than 6 are; mom_6m needs 3 of 5 and mom_36m 24
\* of 35 in the same way.
C27_MomentumFloors ==
    (pc = "final" /\ Len(merged) = Len(universe)) =>
        \A i \in 1..Len(merged) :
            LET r == merged[i]
                t == to_period_M(r.date)
            IN /\ r.mom_12_1 = MomWithFloor(r.ric, t, 11, 6)
               /\ r.mom_6m = MomWithFloor(r.ric, t, 5, 3)
               /\ r.mom_36m = MomWithFloor(r.ric, t, 35, 24)

\* C13: assets_growth at month t is (assets_t - assets_{t-12}) / assets_{t-12}
\* when the entity's assets of twelve months earlier are present and not
\* zero, and missing otherwise.
C13_AssetsGrowthOverYear ==
    (pc \in {"extended", "final"} /\ Len(merged) = Len(universe)) =>
        \A i \in 1..Len(merged) :
            LET r == merged[i]
                t == to_period_M(r.date)
                prev == Val(merged, r.ric, MonthEndDay(t - 12), "totalassets")
            IN r.assets_growth =
                  IF NotNa(prev) /\ ~IsZero(prev)
                  THEN QDiv(QSub(r.totalassets, prev), prev) ELSE NaN

-----------------------------------------------------------------------------
(* Properties of the normalizer steps                                      *)

AfterWinsorize == variant = "ptree_prep" /\ nlog = <<"winsorize">>

AfterStandardize == variant = "ptree_prep" /\ nlog = <<"winsorize", "standardize">>

\* the lower and upper percentile of the observations of date d in the input
QLow(d) == Quantile(SortedVals(panel0, Genuine(d)), LowerPct, PctDen)
QHigh(d) == Quantile(SortedVals(panel0, Genuine(d)), UpperPct, PctDen)

\* C14: winsorize_characteristics, on a date with at least 5 non-missing
\* values, moves every non-missing value into [q_low, q_high], the percentiles
\* of that date's non-missing values: a value below goes to q_low, a value
\* above to q_high, a value inside and a missing one stay as they are; a date
\* with fewer than 5 non-missing values is left untouched.
C14_WinsorizeClips ==
    AfterWinsorize =>
        \A d \in Dates :
            LET q_low == QLow(d)
                q_high == QHigh(d)
            IN \A r \in RowsAt(d) :
                   IF Cardinality(Genuine(d)) >= 5
                   THEN /\ IsNaN(panel0[r]) => IsNaN(panel[r])
                        /\ QLt(panel0[r], q_low) => panel[r] = q_low
                        /\ QLt(q_high, panel0[r]) => panel[r] = q_high
                        /\ (QLe(q_low, panel0[r]) /\ QLe(panel0[r], q_high)) =>
                               panel[r] = panel0[r]
                   ELSE panel[r] = panel0[r]

\* a date with five observations and a missing value, of which one was
\* lowered to the upper percentile, one raised to the lower percentile and one
\* kept; and a date with an observation and fewer than five of them
C14_Witness ==
    /\ AfterWinsorize
    /\ \E d \in Dates :
          /\ Cardinality(Genuine(d)) = 5
          /\ \E r \in Genuine(d) : QLt(panel[r], panel0[r])
          /\ \E r \in Genuine(d) : QLt(panel0[r], panel[r])
          /\ \E r \in Genuine(d) : panel[r] = panel0[r]
    /\ \E d \in Dates : Genuine(d) # {} /\ Cardinality(Genuine(d)) < 5

\* every entity of date d holds the same value
AllIdentical(d) ==
    /\ Genuine(d) = RowsAt(d)
    /\ \A r, s \in RowsAt(d) : panel0[r] = panel0[s]

\* C15: standardize_characteristics (minmax) maps a period in which all
\* entities share one raw value to exactly 0 for every entity, whatever the
\* number of entities in the period, one included.
C15_ConstantPeriodToZero ==
    AfterStandardize =>
        \A d \in Dates : AllIdentical(d) => \A r \in RowsAt(d) : panel[r] = I(0)

\* the column with the rows of date d alone, every other date left empty
OnlyDate(p, d) == [r \in Rows |-> IF r[1] = d THEN p[r] ELSE NaN]

\* the column after the winsorize step, from the input and the step's percentiles
WinsorizedPanel == [r \in Rows |-> Winsorized(r)]

\* contents of a second characteristic column next to the one that is checked
OtherColumns == {panel0, [r \in Rows |-> I(100)]}

\* C16: winsorization and rescaling of a characteristic at one date use only
\* that column's rows of that date: each step leaves at a date the values it
\* would leave had it been given that date's rows alone, whatever the rows at
\* other dates hold and whatever another characteristic column holds.
C16_DateAndColumnLocal ==
    /\ AfterWinsorize =>
          \A d \in Dates :
              LET alone == OnlyDate(panel0, d) @@ <<>>
              IN \A o \in OtherColumns : \A r \in RowsAt(d) :
                     winsorize_panel([this |-> alone, other |-> o]).this[r] = panel[r]
    /\ AfterStandardize =>
          \A d \in Dates :
              LET alone == OnlyDate(WinsorizedPanel, d) @@ <<>>
              IN \A o \in OtherColumns : \A r \in RowsAt(d) :
                     standardize_panel([this |-> alone, other |-> o]).this[r] = panel[r]

\* both steps changed a value of a date while another date holds values that
\* would move the percentiles and the range if they were pooled
C16_Witness ==
    /\ AfterStandardize
    /\ \E d \in Dates :
          /\ wstat[d].rows # {} /\ sstat[d].rows # {}
          /\ \E r \in RowsAt(d) : NotNa(panel0[r]) /\ Winsorized(r) # panel0[r]
          /\ \E r \in RowsAt(d) : NotNa(panel0[r]) /\ panel[r] # Winsorized(r)
          /\ \E o \in Rows \ RowsAt(d) :
                 \A r \in Genuine(d) : QLt(panel0[r], panel0[o])

-----------------------------------------------------------------------------
(* src/universe.py: build_universe                                         *)

UniMonths == 4               \* month-ends between start and end

\* month_ends(start, end): the month-end days, at 00:00
month_ends == [m \in 1..UniMonths |-> MonthEndDay(m)]

\* what the vendor's chain lookup may return for a month: the RIC column,
\* here empty, one RIC, two RICs, or one RIC listed twice
RicLists == {<<>>, <<1>>, <<1, 2>>, <<1, 1>>}

_fetch_constituents_asof(date, rics) ==
    [k \in 1..Len(rics) |-> [date |-> date, ric |-> rics[k]]]

\* the ric of the row that records a failed lookup: None
NoRic == 0

\* the frame appended when the lookup raises
ErrorFrame(date) == <<[date |-> date, ric |-> NoRic, error |-> "lookup failed"]>>

\* pd.concat(frames, ignore_index=True): the union of the columns, a column a
\* frame does not have left empty on its rows
ConcatFrames(fs) ==
    LET rows == Concat(fs)
        hasError == \E i \in 1..Len(rows) : "error" \in DOMAIN rows[i]
    IN [i \in 1..Len(rows) |->
           IF hasError /\ "error" \notin DOMAIN rows[i]
           THEN rows[i] @@ [error |-> "NaN"] ELSE rows[i]]

\* drop_duplicates(): of rows equal in every column the first one is kept
DropDuplicateRows(t) ==
    LET keep == SelectSeq([i \in 1..Len(t) |-> i],
                          LAMBDA i : \A j \in 1..(i - 1) : t[j] # t[i])
    IN [k \in 1..Len(keep) |-> t[keep[k]]]

\* uni.dropna(subset=["ric"]).drop_duplicates()
build_universe(fs) ==
    DropDuplicateRows(SelectSeq(ConcatFrames(fs), LAMBDA r : r.ric # NoRic))

InitUniverse ==
    /\ NormIdle
    /\ pc = "lookup"
    /\ rawPrices = <<>>
    /\ rawFund = <<>>
    /\ padFill = FALSE
    /\ prices = <<>>
    /\ fundamentals = <<>>
    /\ merged = <<>>
    /\ cut = 0
    /\ twin = TwinIdle
    /\ universe = <<>>
    /\ factors = NoFactors
    /\ char_cols = {}
    /\ frames = <<>>
    /\ CallIdle

\* one pass of the loop whose lookup returns
LookupReturns ==
    /\ pc = "lookup"
    /\ Len(frames) < UniMonths
    /\ \E rics \in RicLists :
          frames' = Append(frames,
                           _fetch_constituents_asof(month_ends[Len(frames) + 1], rics))
    /\ UNCHANGED <<pc, universe, factors, char_cols>>
    /\ UNCHANGED <<rawPrices, rawFund, padFill, prices, fundamentals, merged, cut, twin>>
    /\ UNCHANGED normVars
    /\ UNCHANGED callVars

\* one pass of the loop whose lookup raises
LookupRaises ==
    /\ pc = "lookup"
    /\ Len(frames) < UniMonths
    /\ frames' = Append(frames, ErrorFrame(month_ends[Len(frames) + 1]))
    /\ UNCHANGED <<pc, universe, factors, char_cols>>
    /\ UNCHANGED <<rawPrices, rawFund, padFill, prices, fundamentals, merged, cut, twin>>
    /\ UNCHANGED normVars
    /\ UNCHANGED callVars

\* after the loop: concatenate, drop, return
ReturnUniverse ==
    /\ pc = "lookup"
    /\ Len(frames) = UniMonths
    /\ universe' = build_universe(frames)
    /\ pc' = "returned"
    /\ UNCHANGED <<frames, factors, char_cols>>
    /\ UNCHANGED <<rawPrices, rawFund, padFill, prices, fundamentals, merged, cut, twin>>
    /\ UNCHANGED normVars
    /\ UNCHANGED callVars

NextUniverse ==
    \/ LookupReturns
    \/ LookupRaises
    \/ ReturnUniverse

SpecUniverse == InitUniverse /\ [][NextUniverse]_vars

\* the lookup of month m raised
LookupFailed(m) == frames[m] # <<>> /\ "error" \in DOMAIN frames[m][1]

\* the rows of the returned universe dated in month m
ReturnedFor(m) == SelectSeq(universe, LAMBDA r : r.date = month_ends[m])

\* C20: a lookup failure for one month does not abort build_universe: every
\* other month's membership pairs are returned, each pair once, the failed
\* month contributes no pair, and the returned table records the failure.
C20_FailedMonthSurfaced ==
    pc = "returned" =>
        \A m \in 1..UniMonths :
            IF LookupFailed(m)
            THEN /\ \A i \in 1..Len(ReturnedFor(m)) : ReturnedFor(m)[i].ric = NoRic
                 /\ \E i \in 1..Len(universe) :
                       /\ universe[i].date = month_ends[m]
                       /\ "error" \in DOMAIN universe[i]
                       /\ universe[i].error # "NaN"
            ELSE /\ {ReturnedFor(m)[i].ric : i \in 1..Len(ReturnedFor(m))}
                       = {frames[m][k].ric : k \in 1..Len(frames[m])}
                 /\ \A i, j \in 1..Len(ReturnedFor(m)) :
                       ReturnedFor(m)[i].ric = ReturnedFor(m)[j].ric => i = j

-----------------------------------------------------------------------------
(* src/ptree_prep.py: prepare_tree_input on a whole panel.  A dataframe is  *)
(* [columns, rows]: the set of its column names and the sequence of its     *)
(* rows.                                                                    *)

PrepEnt == 5                 \* entities of the first date

\* the shapes of the input panel: well formed, without the ric column,
\* without the date column, with a duplicated (ric, date) row, without rows,
\* without any characteristic column
PanelShapes == {"ok", "no_ric", "no_date", "dup", "empty", "no_chars"}

RetKinds == {1, 2}

PrepRow(e, d, kind) ==
    [ric |-> e, date |-> MonthEndDay(d),
     ret |-> IF kind = 2 /\ e = 1 THEN NaN ELSE Q(e * e + d, 100),
     bm |-> IF e = 2 THEN NaN ELSE I(e + d)]

WithoutCols(t, drop) ==
    [i \in 1..Len(t) |-> [c \in (DOMAIN t[i]) \ drop |-> t[i][c]]]

InputPanel(shape, kind) ==
    LET base == [e \in 1..PrepEnt |-> PrepRow(e, 1, kind)]
                \o [e \in 1..2 |-> PrepRow(e, 2, kind)]
        all == {"ric", "date", "ret", "bm"}
        drop == IF shape = "no_ric" THEN {"ric"}
                ELSE IF shape = "no_date" THEN {"date"}
                ELSE IF shape = "no_chars" THEN {"bm"}
                ELSE {}
    IN [columns |-> all \ drop,
        rows |-> IF shape = "empty" THEN <<>>
                 ELSE IF shape = "dup" THEN Append(base, [base[1] EXCEPT !.bm = I(9)])
                 ELSE WithoutCols(base, drop)]

\* the factors argument: None, a table without an rf column, rf for both
\* dates, rf for the first date only, rf missing at the second date
FactorKinds == {"None", "no_rf", "full", "partial", "nan"}

InputFactors(fk) ==
    IF fk = "None" THEN NoFactors
    ELSE IF fk = "no_rf"
    THEN [given |-> TRUE, columns |-> {"date", "mkt_rf"},
          rows |-> <<[date |-> MonthEndDay(1), mkt_rf |-> Q(1, 100)]>>]
    ELSE [given |-> TRUE, columns |-> {"date", "rf"},
          rows |-> <<[date |-> MonthEndDay(1), rf |-> Q(1, 100)]>>
                   \o (IF fk = "full" THEN <<[date |-> MonthEndDay(2), rf |-> Q(2, 100)]>>
                       ELSE IF fk = "nan" THEN <<[date |-> MonthEndDay(2), rf |-> NaN]>>
                       ELSE <<>>)]

\* df.merge(rf_data, on='date', how='left') and the rf of the row, NaN
\* when no factors row has its date
RfOf(f, date) ==
    LET hit == SelectSeq(f.rows, LAMBDA r : r.date = date)
    IN IF hit = <<>> THEN NaN ELSE hit[1].rf

FillNa0(x) == IF IsNaN(x) THEN I(0) ELSE x

compute_excess_returns(df, f) ==
    IF ~f.given \/ "rf" \notin f.columns
    THEN IF "ret" \in df.columns
         THEN [columns |-> df.columns \cup {"excess_ret"},
               rows |-> [i \in 1..Len(df.rows) |->
                            df.rows[i] @@ [excess_ret |-> df.rows[i].ret]]]
         ELSE df
    ELSE IF "ret" \in df.columns
         THEN [columns |-> df.columns \cup {"excess_ret"},
               rows |-> [i \in 1..Len(df.rows) |->
                            df.rows[i] @@
                            [excess_ret |->
                                QSub(df.rows[i].ret, FillNa0(RfOf(f, df.rows[i].date)))]]]
         ELSE df

\* build_tree_ready raises KeyError on a panel without a date column: in the
\* merge on 'date' when factors carry rf, in df['date'] otherwise
BuildRaises(df, f) == "date" \notin df.columns

build_tree_ready(df, f) == IF f.given THEN compute_excess_returns(df, f) ELSE df

\* duplicates of (ric, date) are counted and reported as a warning
validate_panel_structure(df) ==
    /\ {"ric", "date"} \subseteq df.columns
    /\ df.rows # <<>>

non_char_cols ==
    {"ric", "date", "ret", "mkt_cap", "close", "adj_close", "volume",
     "price", "shares_outstanding", "market_cap", "freq",
     "totalassets", "shareholdersequity", "netincome", "operatingincome",
     "revenue", "commonsharesoutstanding", "epsnormalized", "epsreported",
     "cashfromoperations", "grossprofit", "totaldebt", "longtermdebt",
     "currentassets", "currentliabilities", "grossmargin", "operatingmargin",
     "debttoassets", "rdexpense", "advertisingexpense",
     "trbc_sector", "trbc_industry", "icb_industry", "icb_supersector"}

\* the remaining numeric columns (none of the model's columns names an error)
identify_characteristics(df) == df.columns \ non_char_cols

ColOf(t, c) == [i \in 1..Len(t) |-> t[i][c]]

\* the non-missing values of column c in the group of row i's date
GroupValid(t, c, i) == {j \in 1..Len(t) : t[j].date = t[i].date /\ NotNa(t[j][c])}

\* winsorize_characteristics on the dataframe
winsorize_frame(df, cols) ==
    [df EXCEPT !.rows =
        [i \in 1..Len(@) |->
            [c \in DOMAIN @[i] |->
                IF c \notin cols THEN @[i][c]
                ELSE LET V == GroupValid(df.rows, c, i)
                         sv == SortedVals(ColOf(df.rows, c), V)
                     IN IF Cardinality(V) >= WinsorMinObs
                        THEN Clip(df.rows[i][c], Quantile(sv, LowerPct, PctDen),
                                  Quantile(sv, UpperPct, PctDen))
                        ELSE df.rows[i][c]]]]

\* standardize_characteristics (minmax) on the dataframe
standardize_frame(df, cols) ==
    [df EXCEPT !.rows =
        [i \in 1..Len(@) |->
            [c \in DOMAIN @[i] |->
                IF c \notin cols THEN @[i][c]
                ELSE LET V == GroupValid(df.rows, c, i)
                         sv == SortedVals(ColOf(df.rows, c), V)
                     IN IF Cardinality(V) < ScaleMinObs THEN df.rows[i][c]
                        ELSE IF sv[1] = sv[Len(sv)] THEN I(0)
                        ELSE MinMax(df.rows[i][c], sv[1], sv[Len(sv)])]]]

\* fill_missing_values on the dataframe
fill_frame(df, cols) ==
    [df EXCEPT !.rows =
        [i \in 1..Len(@) |->
            [c \in DOMAIN @[i] |->
                IF c \in cols /\ IsNaN(@[i][c]) THEN FillValue ELSE @[i][c]]]]

InitPrep ==
    /\ variant = "prepare_tree_input"
    /\ \E shape \in PanelShapes : \E kind \in RetKinds : panel0 = InputPanel(shape, kind)
    /\ panel = panel0
    /\ nidx = 0
    /\ nlog = <<>>
    /\ wstat = <<>>
    /\ sstat = <<>>
    /\ pc = "build"
    /\ rawPrices = <<>>
    /\ rawFund = <<>>
    /\ padFill = FALSE
    /\ prices = <<>>
    /\ fundamentals = <<>>
    /\ merged = <<>>
    /\ cut = 0
    /\ twin = TwinIdle
    /\ universe = <<>>
    /\ \E fk \in FactorKinds : factors = InputFactors(fk)
    /\ char_cols = {}
    /\ frames = <<>>
    /\ CallIdle

PrepFrame == <<variant, panel0, nidx, wstat, sstat, factors, frames>>

\* "1. Building tree-ready dataset"
BuildTreeReady ==
    /\ pc = "build"
    /\ IF BuildRaises(panel, factors)
       THEN pc' = "raised" /\ UNCHANGED panel
       ELSE pc' = "validate" /\ panel' = build_tree_ready(panel, factors)
    /\ UNCHANGED <<nlog, char_cols>>
    /\ UNCHANGED PrepFrame
    /\ UNCHANGED <<rawPrices, rawFund, padFill, prices, fundamentals, merged, cut, twin,
                   universe>>
    /\ UNCHANGED callVars

\* "2. Validating panel structure"
ValidatePanel ==
    /\ pc = "validate"
    /\ pc' = IF validate_panel_structure(panel) THEN "identify" ELSE "raised"
    /\ UNCHANGED <<panel, nlog, char_cols>>
    /\ UNCHANGED PrepFrame
    /\ UNCHANGED <<rawPrices, rawFund, padFill, prices, fundamentals, merged, cut, twin,
                   universe>>
    /\ UNCHANGED callVars

\* "3. Identifying characteristics"
IdentifyCharacteristics ==
    /\ pc = "identify"
    /\ char_cols' = identify_characteristics(panel)
    /\ pc' = IF char_cols' = {} THEN "raised" ELSE "winsorize"
    /\ UNCHANGED <<panel, nlog>>
    /\ UNCHANGED PrepFrame
    /\ UNCHANGED <<rawPrices, rawFund, padFill, prices, fundamentals, merged, cut, twin,
                   universe>>
    /\ UNCHANGED callVars

\* "4. Winsorizing characteristics"
WinsorizeFrame ==
    /\ pc = "winsorize"
    /\ panel' = winsorize_frame(panel, char_cols)
    /\ nlog' = Append(nlog, "winsorize")
    /\ pc' = "standardize"
    /\ UNCHANGED char_cols
    /\ UNCHANGED PrepFrame
    /\ UNCHANGED <<rawPrices, rawFund, padFill, prices, fundamentals, merged, cut, twin,
                   universe>>
    /\ UNCHANGED callVars

\* "5. Standardizing characteristics"
StandardizeFrame ==
    /\ pc = "standardize"
    /\ panel' = standardize_frame(panel, char_cols)
    /\ nlog' = Append(nlog, "standardize")
    /\ pc' = "fill"
    /\ UNCHANGED char_cols
    /\ UNCHANGED PrepFrame
    /\ UNCHANGED <<rawPrices, rawFund, padFill, prices, fundamentals, merged, cut, twin,
                   universe>>
    /\ UNCHANGED callVars

\* "6. Filling missing values", the checks that only print, and the return
FillFrame ==
    /\ pc = "fill"
    /\ panel' = fill_frame(panel, char_cols)
    /\ nlog' = Append(nlog, "fill")
    /\ pc' = "returned"
    /\ UNCHANGED char_cols
    /\ UNCHANGED PrepFrame
    /\ UNCHANGED <<rawPrices, rawFund, padFill, prices, fundamentals, merged, cut, twin,
                   universe>>
    /\ UNCHANGED callVars

NextPrep ==
    \/ BuildTreeReady
    \/ ValidatePanel
    \/ IdentifyCharacteristics
    \/ WinsorizeFrame
    \/ StandardizeFrame
    \/ FillFrame

SpecPrep == InitPrep /\ [][NextPrep]_vars

\* the input panel holds two rows with one (ric, date)
HasDuplicateKeys(df) ==
    /\ {"ric", "date"} \subseteq df.columns
    /\ \E i, j \in 1..Len(df.rows) :
          i # j /\ df.rows[i].ric = df.rows[j].ric /\ df.rows[i].date = df.rows[j].date

\* C18: prepare_tree_input raises an error to its caller, before any
\* winsorization, rescaling or fill is applied, whenever the input panel
\* lacks the ric or the date column or holds duplicate (ric, date) rows.
C18_StructuralErrorsAbort ==
    ("ric" \notin panel0.columns \/ "date" \notin panel0.columns
        \/ HasDuplicateKeys(panel0)) =>
            /\ nlog = <<>>
            /\ pc \in {"build", "validate", "raised"}

\* the rows of a table that are the input row r: its ric, date and ret
SameRow(t, r) ==
    SelectSeq(t, LAMBDA o : o.ric = r.ric /\ o.date = r.date /\ o.ret = r.ret)

\* C19: with factors that carry rf, the table prepare_tree_input returns
\* holds every input row exactly once, and the row's excess_ret is its ret
\* minus the risk-free rate of its date, the rate being 0 where unavailable.
C19_ExcessReturn ==
    (pc = "returned" /\ factors.given /\ "rf" \in factors.columns) =>
        /\ Len(panel.rows) = Len(panel0.rows)
        /\ \A i \in 1..Len(panel0.rows) :
              LET r == panel0.rows[i]
              IN /\ Len(SameRow(panel.rows, r)) = Len(SameRow(panel0.rows, r))
                 /\ \A k \in 1..Len(SameRow(panel.rows, r)) :
                       SameRow(panel.rows, r)[k].excess_ret
                          = QSub(r.ret, FillNa0(RfOf(factors, r.date)))

-----------------------------------------------------------------------------
(* src/utils.py: backoff_retry                                             *)

DefaultTries == 5            \* tries=5
BaseSleeps == {1, 2, 3}      \* base_sleep, in seconds (1.0 by default)
FnResults == {1, 2}          \* what fn returns when it succeeds
ExcTypes == {"TimeoutError", "ConnectionError"}   \* instances of Exception
OtherExc == {"KeyboardInterrupt"}                 \* not an instance of exc_types

CallEvent(ok, value, exc) == [op |-> "call", ok |-> ok, value |-> value, exc |-> exc, secs |-> 0]
SleepEvent(secs) == [op |-> "sleep", ok |-> TRUE, value |-> 0, exc |-> "", secs |-> secs]

\* a delay that grows by base_sleep after every failure
NextDelayLinear(d) == d + base_sleep

\* delay *= 2
NextDelay(d) == d * 2

\* wrapper(*args, **kwargs) is entered: delay = base_sleep, the loop starts
InitRetry ==
    /\ NormIdle
    /\ AuxIdle
    /\ pc = "attempt"
    /\ rawPrices = <<>>
    /\ rawFund = <<>>
    /\ padFill = FALSE
    /\ prices = <<>>
    /\ fundamentals = <<>>
    /\ merged = <<>>
    /\ cut = 0
    /\ twin = TwinIdle
    /\ universe = <<>>
    /\ tries \in 0..DefaultTries
    /\ base_sleep \in BaseSleeps
    /\ attempt = 0
    /\ delay = base_sleep
    /\ trace = <<>>
    /\ outcome = NoOutcome
    /\ PullIdle
    /\ FinbasIdle
    /\ RelaxIdle

RetryFrame == <<rawPrices, rawFund, padFill, prices, fundamentals, merged, cut, twin,
                universe, tries, base_sleep, pullVars, finbasVars, relaxVars>>

\* an attempt whose call of fn returns: the wrapper returns that value
AttemptReturns ==
    /\ pc = "attempt" /\ attempt < tries
    /\ \E v \in FnResults :
          /\ trace' = Append(trace, CallEvent(TRUE, v, ""))
          /\ outcome' = [kind |-> "return", value |-> v, exc |-> ""]
    /\ pc' = "returned"
    /\ UNCHANGED <<attempt, delay>>
    /\ UNCHANGED RetryFrame
    /\ UNCHANGED normVars
    /\ UNCHANGED auxVars

\* an attempt whose call raises one of exc_types: re-raise on the last
\* attempt, otherwise sleep, double the delay and go round again
AttemptRaises ==
    /\ pc = "attempt" /\ attempt < tries
    /\ \E e \in ExcTypes :
          IF attempt = tries - 1
          THEN /\ trace' = Append(trace, CallEvent(FALSE, 0, e))
               /\ outcome' = [kind |-> "raise", value |-> 0, exc |-> e]
               /\ pc' = "raised"
               /\ UNCHANGED <<attempt, delay>>
          ELSE /\ trace' = trace \o <<CallEvent(FALSE, 0, e), SleepEvent(delay)>>
               /\ delay' = NextDelay(delay)
               /\ attempt' = attempt + 1
               /\ UNCHANGED <<pc, outcome>>
    /\ UNCHANGED RetryFrame
    /\ UNCHANGED normVars
    /\ UNCHANGED auxVars

\* an attempt whose call raises something the except clause does not catch
AttemptPropagates ==
    /\ pc = "attempt" /\ attempt < tries
    /\ \E e \in OtherExc :
          /\ trace' = Append(trace, CallEvent(FALSE, 0, e))
          /\ outcome' = [kind |-> "raise", value |-> 0, exc |-> e]
    /\ pc' = "raised"
    /\ UNCHANGED <<attempt, delay>>
    /\ UNCHANGED RetryFrame
    /\ UNCHANGED normVars
    /\ UNCHANGED auxVars

\* range(tries) is empty or used up: the wrapper falls off its end
LoopEnds ==
    /\ pc = "attempt" /\ attempt >= tries
    /\ outcome' = [kind |-> "None", value |-> 0, exc |-> ""]
    /\ pc' = "returned"
    /\ UNCHANGED <<attempt, delay, trace>>
    /\ UNCHANGED RetryFrame
    /\ UNCHANGED normVars
    /\ UNCHANGED auxVars

NextRetry ==
    \/ AttemptReturns
    \/ AttemptRaises
    \/ AttemptPropagates
    \/ LoopEnds

SpecRetry == InitRetry /\ [][NextRetry]_vars

\* the calls of fn and the sleeps of the trace
CallsOf(tr) == SelectSeq(tr, LAMBDA ev : ev.op = "call")
SleepsOf(tr) == SelectSeq(tr, LAMBDA ev : ev.op = "sleep")

\* C22: backoff_retry calls fn at most tries times; the value of the first
\* call that succeeds is returned and fn is not called again; the sleep before
\* retry k is base_sleep * 2^(k-1); after the last failed attempt that
\* attempt's exception is raised, with no sleep after it.
C22_BoundedBackoff ==
    LET calls == CallsOf(trace)
        sleeps == SleepsOf(trace)
    IN /\ Len(calls) <= tries
       /\ \A k \in 1..Len(sleeps) : sleeps[k].secs = base_sleep * Pow2(k - 1)
       /\ \A k \in 1..Len(trace) :
              trace[k].op = "sleep" =>
                 /\ k > 1 /\ trace[k - 1].op = "call" /\ ~trace[k - 1].ok
                 /\ k < Len(trace) \/ pc = "attempt"
       /\ \A k \in 1..Len(calls) : calls[k].ok => k = Len(calls) /\ pc = "returned"
       /\ pc = "returned" /\ calls # <<>> =>
              /\ calls[Len(calls)].ok
              /\ outcome = [kind |-> "return", value |-> calls[Len(calls)].value, exc |-> ""]
       /\ pc = "raised" =>
              /\ calls # <<>> /\ ~calls[Len(calls)].ok
              /\ trace[Len(trace)] = calls[Len(calls)]
              /\ outcome = [kind |-> "raise", value |-> 0, exc |-> calls[Len(calls)].exc]
              /\ calls[Len(calls)].exc \in ExcTypes => Len(calls) = tries

\* five attempts failed with sleeps of 1, 2, 4 and 8 seconds between them and
\* the fifth exception reached the caller
C22_Witness ==
    /\ pc = "raised" /\ tries = DefaultTries /\ base_sleep = 1
    /\ Len(CallsOf(trace)) = DefaultTries
    /\ [k \in 1..4 |-> SleepsOf(trace)[k].secs] = <<1, 2, 4, 8>>
    /\ outcome.exc \in ExcTypes

-----------------------------------------------------------------------------
(* src/fundamentals.py: _pull_block and pull_fundamentals                  *)

\* the fields by their position in FUND_CORE_FIELDS + FUND_EXTENDED_FIELDS
FUND_CORE_FIELDS == <<1, 2, 3, 4, 5, 6>>
FUND_EXTENDED_FIELDS == <<7, 8, 9, 10, 11, 12, 13, 14, 15, 16, 17, 18, 19>>
FUND_Q_FIELDS == FUND_CORE_FIELDS \o FUND_EXTENDED_FIELDS
FUND_A_FIELDS == FUND_CORE_FIELDS \o FUND_EXTENDED_FIELDS
AllFields == {FUND_Q_FIELDS[i] : i \in 1..Len(FUND_Q_FIELDS)}

group_size == 6
NFundRics == 4               \* entities of the universe
ChunkSize == 2               \* entities per batch (25 in pull_fundamentals)

\* utils.chunks(lst, n)
chunks(lst, n) ==
    [k \in 1..((Len(lst) + n - 1) \div n) |->
        SubSeq(lst, (k - 1) * n + 1, IF k * n < Len(lst) THEN k * n ELSE Len(lst))]

\* the vendor while a batch is pulled: the fields it has no data for; whether
\* a request that names such a field fails as a whole (strict) or is answered
\* for the other fields; whether _pull_block raises; whether the vendor is
\* down for the first pull and back for the second
Steady(bad, strict) == [bad |-> bad, strict |-> strict, raises |-> FALSE, recovers |-> FALSE]
VendorUp == Steady({}, TRUE)
VendorConditions ==
    {VendorUp, Steady({4}, TRUE), Steady({4}, FALSE), Steady({1, 4}, TRUE),
     Steady({8}, TRUE), Steady(AllFields, TRUE),
     [bad |-> {}, strict |-> TRUE, raises |-> TRUE, recovers |-> FALSE],
     [bad |-> AllFields, strict |-> TRUE, raises |-> FALSE, recovers |-> TRUE]}

\* fetch_group: the fields the parsed answer holds; {} is the empty frame,
\* also returned when _get_data raised after its retries
fetch_group(group_fields, cond) ==
    LET asked == {group_fields[i] : i \in 1..Len(group_fields)}
    IN IF cond.strict
       THEN IF asked \cap cond.bad = {} THEN asked ELSE {}
       ELSE asked \ cond.bad

\* "for f in g: single = fetch_group([f])": whatever is available per field
PerField(g, cond) ==
    UNION {fetch_group(<<g[i]>>, cond) : i \in 1..Len(g)}

\* "else: if not left.empty ... if not right.empty ..."
KeepHalves(g, cond) ==
    LET mid == Len(g) \div 2
    IN fetch_group(SubSeq(g, 1, mid), cond) \cup fetch_group(SubSeq(g, mid + 1, Len(g)), cond)

\* the body of "for g in groups": what is appended to group_results for g
PullGroup(g, cond) ==
    LET res == fetch_group(g, cond)
        mid == Len(g) \div 2
        left == fetch_group(SubSeq(g, 1, mid), cond)
        right == fetch_group(SubSeq(g, mid + 1, Len(g)), cond)
    IN IF res = {} /\ Len(g) > 1
       THEN IF left = {} /\ right = {}
            THEN PerField(g, cond)
            ELSE KeepHalves(g, cond)
       ELSE res

\* _pull_block: the field columns of the outer merge of the group results
_pull_block(fields, cond) ==
    LET groups == chunks(fields, group_size)
    IN UNION {PullGroup(groups[k], cond) : k \in 1..Len(groups)}

\* a frame: whether it has a date column, and its rows
DataRows(batch, got) ==
    [has_date |-> TRUE,
     rows |-> [k \in 1..Len(batch) |->
                 [ric |-> batch[k], date |-> 1, fields |-> got, error |-> "", freq |-> ""]]]

\* pd.DataFrame({"ric": batch, "error": ...})
ErrorRecords(batch, msg) ==
    [has_date |-> FALSE,
     rows |-> [k \in 1..Len(batch) |->
                 [ric |-> batch[k], date |-> 0, fields |-> {}, error |-> msg, freq |-> ""]]]

\* the body of one "for batch in ..." pass: the frame it appends
BatchFrame(batch, fields, cond) ==
    IF cond.raises THEN ErrorRecords(batch, "exception")
    ELSE LET full == _pull_block(fields, cond)
             core == _pull_block(FUND_CORE_FIELDS, IF cond.recovers THEN VendorUp ELSE cond)
         IN IF full # {} THEN DataRows(batch, full)
            ELSE IF core # {} THEN DataRows(batch, core)
            ELSE ErrorRecords(batch, "No data returned")

FundRics == [i \in 1..NFundRics |-> i]
Batches == chunks(FundRics, ChunkSize)

\* pd.concat(frames) and the freq tag, set when the table has a date column
TaggedConcat(fs, tag) ==
    LET rows == Concat([i \in 1..Len(fs) |-> fs[i].rows])
        dated == \E i \in 1..Len(fs) : fs[i].has_date
    IN [has_date |-> dated,
        rows |-> [i \in 1..Len(rows) |->
                    IF dated THEN [rows[i] EXCEPT !.freq = tag] ELSE rows[i]]]

\* lines 198-221
combine_frames(fq_frames, fa_frames) ==
    LET fq == TaggedConcat(fq_frames, "Q")
        fa == TaggedConcat(fa_frames, "A")
        valid == (IF fq.rows # <<>> /\ fq.has_date THEN fq.rows ELSE <<>>)
                 \o (IF fa.rows # <<>> /\ fa.has_date THEN fa.rows ELSE <<>>)
    IN DropDuplicateRows(valid)

InitFund ==
    /\ NormIdle
    /\ AuxIdle
    /\ pc = "pull_q"
    /\ rawPrices = <<>>
    /\ rawFund = <<>>
    /\ padFill = FALSE
    /\ prices = <<>>
    /\ fundamentals = <<>>
    /\ merged = <<>>
    /\ cut = 0
    /\ twin = TwinIdle
    /\ universe = <<>>
    /\ RetryIdle
    /\ FinbasIdle
    /\ RelaxIdle
    /\ served = <<>>
    /\ frames_q = <<>>
    /\ frames_a = <<>>
    /\ fund_table = <<>>

FundFrame == <<rawPrices, rawFund, padFill, prices, fundamentals, merged, cut, twin,
               universe, retryVars, finbasVars, relaxVars>>

\* one pass of "for batch in ... Fundamentals Q"
PullQuarterlyBatch ==
    /\ pc = "pull_q"
    /\ \E cond \in VendorConditions :
          /\ frames_q' = Append(frames_q,
                                BatchFrame(Batches[Len(frames_q) + 1], FUND_Q_FIELDS, cond))
          /\ served' = Append(served, cond)
    /\ pc' = IF Len(frames_q') = Len(Batches) THEN "pull_a" ELSE "pull_q"
    /\ UNCHANGED <<frames_a, fund_table>>
    /\ UNCHANGED FundFrame
    /\ UNCHANGED normVars
    /\ UNCHANGED auxVars

\* one pass of "for batch in ... Fundamentals A"
PullAnnualBatch ==
    /\ pc = "pull_a"
    /\ \E cond \in VendorConditions :
          /\ frames_a' = Append(frames_a,
                                BatchFrame(Batches[Len(frames_a) + 1], FUND_A_FIELDS, cond))
          /\ served' = Append(served, cond)
    /\ pc' = IF Len(frames_a') = Len(Batches) THEN "combine" ELSE "pull_a"
    /\ UNCHANGED <<frames_q, fund_table>>
    /\ UNCHANGED FundFrame
    /\ UNCHANGED normVars
    /\ UNCHANGED auxVars

\* concat, tag, combine, return
ReturnFund ==
    /\ pc = "combine"
    /\ fund_table' = combine_frames(frames_q, frames_a)
    /\ pc' = "returned"
    /\ UNCHANGED <<served, frames_q, frames_a>>
    /\ UNCHANGED FundFrame
    /\ UNCHANGED normVars
    /\ UNCHANGED auxVars

NextFund ==
    \/ PullQuarterlyBatch
    \/ PullAnnualBatch
    \/ ReturnFund

SpecFund == InitFund /\ [][NextFund]_vars

\* the frames of both loops in the order of served
AllFrames == frames_q \o frames_a

\* C21: a failed batch never keeps the remaining batches from being pulled,
\* and whenever at least one batch succeeded the returned table holds an
\* error record for every entity of every failed batch, next to the data.
C21_FailedBatchesFlagged ==
    pc = "returned" =>
        /\ Len(frames_q) = Len(Batches) /\ Len(frames_a) = Len(Batches)
        /\ (\E i \in 1..Len(AllFrames) : AllFrames[i].has_date) =>
              \A i \in 1..Len(AllFrames) :
                  ~AllFrames[i].has_date =>
                      \A k \in 1..Len(AllFrames[i].rows) :
                          \E j \in 1..Len(fund_table) :
                              /\ fund_table[j].ric = AllFrames[i].rows[k].ric
                              /\ fund_table[j].error # ""

\* C23: within _pull_block a field is given up for a batch only after a
\* request for that field alone returned no data: every field the vendor
\* answers when asked for it alone is in the batch's result.
C23_PerFieldIsolation ==
    \A i \in 1..Len(AllFrames) :
        (~served[i].raises /\ ~served[i].recovers) =>
            \A f \in AllFields :
                fetch_group(<<f>>, served[i]) # {} =>
                    /\ AllFrames[i].has_date
                    /\ f \in AllFrames[i].rows[1].fields

-----------------------------------------------------------------------------
(* src/analysis_dataset/old_analysis/scripts/3_build_final_dataset.py      *)
(* The isin of a row is held in its field ric, so that the table operators *)
(* above apply to the Finbas panel.                                        *)

FinMonths == 14              \* months of the Finbas panel, from January of year 1
MonthsPerYear == 12

\* df['date'].dt.year
YearOf(date) == (to_period_M(date) - 1) \div MonthsPerYear + 1

\* the month-end on which fiscal year y ends
FiscalYearEnd(y) == MonthEndDay(y * MonthsPerYear)

FinbasKinds == {1, 2, 3}

\* finbas_market_data.csv after load_and_prepare_finbas_data: sorted by isin
\* and date; complete, with a month without a price, or with a price of zero
FinbasData(kind) ==
    LET row(isin, m) ==
            [ric |-> isin, date |-> MonthEndDay(m),
             price |-> IF kind = 2 /\ isin = 2 /\ m = 3 THEN NaN
                       ELSE IF kind = 3 /\ isin = 1 /\ m = 2 THEN I(0)
                       ELSE IF m > FinMonths - isin THEN I(2) ELSE I(1),
             volume |-> I(isin + (m % 2)),
             market_cap |-> IF kind = 3 /\ m = 4 THEN I(0) ELSE I(2 * isin),
             book_value |-> IF m % MonthsPerYear = 1 THEN I(isin + m) ELSE NaN]
    IN Concat([isin \in 1..Cardinality(Rics) |-> [m \in 1..FinMonths |-> row(isin, m)]])

LsegYears == {1, 2}
LsegCols == {"total_assets", "net_income"}

\* lseg_basic_fundamentals.csv: per (isin, year) no row, a row, or a row whose
\* total_assets is empty; the figures name the company and the fiscal year
LsegChoices == [Rics \X LsegYears -> {"none", "row", "empty"}]

LsegRow(isin, y, c) ==
    [ric |-> isin, year |-> y,
     total_assets |-> IF c = "empty" THEN NaN ELSE I(100 * isin + y),
     net_income |-> I(10 * isin + y)]

LsegData(ch) ==
    Concat([isin \in 1..Cardinality(Rics) |->
              Concat([y \in 1..Cardinality(LsegYears) |->
                        IF ch[<<isin, y>>] = "none" THEN <<>>
                        ELSE <<LsegRow(isin, y, ch[<<isin, y>>])>>])])

\* df.groupby('isin')['book_value'].ffill()
forward_fill_finbas_data(df) == GroupFfill(df, {"book_value"})

\* np.where(den > 0, num / den, np.nan)
WherePositive(num, den) == IF QLt(I(0), den) THEN QDiv(num, den) ELSE NaN

\* out['current_return'].shift(1): the value of the row above in the table
ShiftColumn(t, col, new) ==
    [i \in 1..Len(t) |-> (new :> (IF i > 1 THEN t[i - 1][col] ELSE NaN)) @@ t[i]]

calculate_finbas_characteristics(df, pad) ==
    LET c0 == RowCol(df, "book_to_market", LAMBDA r : WherePositive(r.book_value, r.market_cap))
        c1 == AddCol(SortSeq(c0, RicDateLess), "current_return",
                     LAMBDA g, n : PctChange(g, "price", n, pad))
        c2 == ShiftColumn(c1, "current_return", "return_1m")
        c3 == AddCol(c2, "momentum_12m",
                     LAMBDA g, n :
                        LET lag == Shift(g, "price", n, 12)
                        IN IF NotNa(lag) /\ ~IsZero(lag)
                           THEN QSub(QDiv(g[n].price, lag), I(1)) ELSE NaN)
        c4 == AddCol(c3, "volatility_12m", LAMBDA g, n : RollingStd(g, "return_1m", n, 12, 6))
    IN RowCol(c4, "turnover",
              LAMBDA r : WherePositive(QMul(r.volume, r.price), r.market_cap))

\* panel_df.merge(fund_df[merge_cols], on='merge_key', how='left')
MergeOnKey(panel_df, fund_df) ==
    Concat([i \in 1..Len(panel_df) |->
              LET y == YearOf(panel_df[i].date)
                  hit == SelectSeq(fund_df, LAMBDA f : f.ric = panel_df[i].ric /\ f.year = y)
              IN IF hit = <<>>
                 THEN <<panel_df[i] @@ [year |-> y] @@ [c \in LsegCols |-> NaN]>>
                 ELSE [j \in 1..Len(hit) |->
                          panel_df[i] @@ [year |-> y] @@ [c \in LsegCols |-> hit[j][c]]]])

forward_fill_fundamentals(panel_data, fundamental_data) ==
    GroupFfill(MergeOnKey(panel_data, fundamental_data), LsegCols)

InitFinbas ==
    /\ NormIdle
    /\ AuxIdle
    /\ RetryIdle
    /\ PullIdle
    /\ RelaxIdle
    /\ pc = "fill_book"
    /\ rawPrices = <<>>
    /\ rawFund = <<>>
    /\ padFill \in BOOLEAN
    /\ prices = <<>>
    /\ fundamentals = <<>>
    /\ merged = <<>>
    /\ cut = 0
    /\ twin = TwinIdle
    /\ universe = <<>>
    /\ \E kind \in FinbasKinds : finbas_df = FinbasData(kind)
    /\ \E ch \in LsegChoices : basic_df = LsegData(ch)

FinbasFrame == <<rawPrices, rawFund, padFill, prices, fundamentals, merged, cut, twin,
                 universe, basic_df, retryVars, pullVars, relaxVars>>

\* main, step 2
ForwardFillFinbas ==
    /\ pc = "fill_book"
    /\ finbas_df' = forward_fill_finbas_data(finbas_df)
    /\ pc' = "characteristics"
    /\ UNCHANGED FinbasFrame
    /\ UNCHANGED normVars
    /\ UNCHANGED auxVars

\* main, step 3
CalculateFinbasCharacteristics ==
    /\ pc = "characteristics"
    /\ finbas_df' = calculate_finbas_characteristics(finbas_df, padFill)
    /\ pc' = "merge_basic"
    /\ UNCHANGED FinbasFrame
    /\ UNCHANGED normVars
    /\ UNCHANGED auxVars

\* main, step 5
ForwardFillFundamentals ==
    /\ pc = "merge_basic"
    /\ finbas_df' = forward_fill_fundamentals(finbas_df, basic_df)
    /\ pc' = "merged"
    /\ UNCHANGED FinbasFrame
    /\ UNCHANGED normVars
    /\ UNCHANGED auxVars

NextFinbas ==
    \/ ForwardFillFinbas
    \/ CalculateFinbasCharacteristics
    \/ ForwardFillFundamentals

SpecFinbas == InitFinbas /\ [][NextFinbas]_vars

\* the fiscal years of a company whose total_assets figure is the given one
YearsWith(isin, x) ==
    {y \in LsegYears :
        \E i \in 1..Len(basic_df) :
            basic_df[i].ric = isin /\ basic_df[i].year = y /\ basic_df[i].total_assets = x}

\* C26: forward_fill_fundamentals has no look-ahead: the annual figures on a
\* monthly row dated d are those of a fiscal year that ended on or before d,
\* so a row inside year Y never carries the figures of year Y.
C26_AnnualNoLookAhead ==
    pc = "merged" =>
        \A i \in 1..Len(finbas_df) :
            NotNa(finbas_df[i].total_assets) =>
                \E y \in YearsWith(finbas_df[i].ric, finbas_df[i].total_assets) :
                    FiscalYearEnd(y) <= finbas_df[i].date

\* C29: return_1m at a company's row is that company's current_return of its
\* previous row, and is missing on the company's first row; it is never taken
\* from a row of another company.
C29_LagWithinCompany ==
    pc \in {"merge_basic", "merged"} =>
        \A i \in 1..Len(finbas_df) :
            finbas_df[i].return_1m =
                IF i > 1 /\ finbas_df[i - 1].ric = finbas_df[i].ric
                THEN finbas_df[i - 1].current_return
                ELSE NaN

-----------------------------------------------------------------------------
(* src/src/1_prepare_data_relaxed.py: prepare_ptree_data_relaxed           *)
(* The isin of a row is held in its field ric.                             *)

NRelaxEnt == 3               \* companies of the input file
RelaxDates == {1, 2}
MinCharacteristics == 2      \* min_characteristics, of the 3 mapped columns below

\* characteristic_mapping, for the columns the input file holds
characteristic_mapping ==
    [market_cap |-> "rank_me", book_to_market |-> "rank_bm", momentum_12m |-> "rank_mom12m"]
rank_cols == {characteristic_mapping[c] : c \in DOMAIN characteristic_mapping}

\* which of book_to_market and momentum_12m a row of the file holds
CellChoices == [(1..NRelaxEnt) \X RelaxDates -> SUBSET {"book_to_market", "momentum_12m"}]

\* the input file: kind 2 has a row without return and one without market cap
RelaxInput(cells, kind) ==
    LET row(isin, d) ==
            [ric |-> isin, date |-> d,
             current_return |-> IF kind = 2 /\ isin = 1 /\ d = 1 THEN NaN ELSE I(isin - d),
             market_cap |-> IF kind = 2 /\ isin = 2 /\ d = 2 THEN NaN ELSE I(isin + d),
             book_to_market |-> IF "book_to_market" \in cells[<<isin, d>>]
                                THEN I(1 + ((isin + d) % 2)) ELSE NaN,
             momentum_12m |-> IF "momentum_12m" \in cells[<<isin, d>>]
                              THEN I(isin * d) ELSE NaN]
    IN Concat([isin \in 1..NRelaxEnt |->
                 [d \in 1..Cardinality(RelaxDates) |-> row(isin, d)]])

\* lines 38-55: sort, identifiers, ret, xret, lag_me, log_me
prepare_fields(df) ==
    LET sorted == SortSeq(df, RicDateLess)
        shifted(i) == IF i > 1 /\ sorted[i - 1].ric = sorted[i].ric
                      THEN sorted[i - 1].market_cap ELSE NaN
        lagged == [i \in 1..Len(sorted) |->
                      [lag_me |-> IF IsNaN(shifted(i)) THEN sorted[i].market_cap
                                  ELSE shifted(i)] @@ sorted[i]]
    IN [i \in 1..Len(lagged) |->
           [permno |-> lagged[i].ric, ret |-> lagged[i].current_return,
            xret |-> lagged[i].current_return, log_me |-> Log(lagged[i].market_cap)]
           @@ lagged[i]]

critical_fields == {"ret", "xret", "market_cap", "lag_me"}

\* df.dropna(subset=critical_fields)
drop_critical(df) == SelectSeq(df, LAMBDA r : \A c \in critical_fields : NotNa(r[c]))

\* x.rank(pct=True, method='average') of row i within the rows of its date
RankPct(df, col, i) ==
    LET same == {j \in 1..Len(df) : df[j].date = df[i].date /\ NotNa(df[j][col])}
        less == Cardinality({j \in same : QLt(df[j][col], df[i][col])})
        equal == Cardinality({j \in same : df[j][col] = df[i][col]})
    IN IF IsNaN(df[i][col]) THEN NaN
       ELSE Q(2 * less + equal + 1, 2 * Cardinality(same))

rank_cross_sectional(df, col) == [i \in 1..Len(df) |-> RankPct(df, col, i)]

\* lines 89-97: the rank columns and n_chars_available
rank_characteristics(df) ==
    [i \in 1..Len(df) |->
        LET ranks == [c \in rank_cols |->
                        LET src == CHOOSE k \in DOMAIN characteristic_mapping :
                                       characteristic_mapping[k] = c
                        IN rank_cross_sectional(df, src)[i]]
        IN ranks @@ [n_chars_available |-> Cardinality({c \in rank_cols : NotNa(ranks[c])})]
           @@ df[i]]

\* df[df['n_chars_available'] >= min_characteristics]
filter_min_characteristics(df) ==
    SelectSeq(df, LAMBDA r : r.n_chars_available >= MinCharacteristics)

\* Series.median() of the values of col on the rows S: missing values skipped
Median(df, col, S) ==
    LET V == {i \in S : NotNa(df[i][col])}
        sv == SortedVals([i \in 1..Len(df) |-> df[i][col]], V)
    IN IF V = {} THEN NaN ELSE Quantile(sv, 1, 2)

\* Series.fillna(med): a missing median fills nothing
FillNa(x, med) == IF NotNa(x) THEN x ELSE med

\* lines 108-118 for one column: the median of the date, then the overall one
impute_column(df, col) ==
    LET byDate == [i \in 1..Len(df) |->
                      FillNa(df[i][col],
                             Median(df, col, {j \in 1..Len(df) : df[j].date = df[i].date}))]
        t1 == [i \in 1..Len(df) |-> [df[i] EXCEPT ![col] = byDate[i]]]
        overall == Median(t1, col, 1..Len(t1))
    IN [i \in 1..Len(t1) |-> [t1[i] EXCEPT ![col] = FillNa(t1[i][col], overall)]]

RECURSIVE ImputeAll(_, _)
ImputeAll(df, cols) ==
    IF cols = {} THEN df
    ELSE LET c == CHOOSE x \in cols : TRUE
         IN ImputeAll(impute_column(df, c), cols \ {c})

\* df[rank_cols].isna().sum().sum()
RemainingNAs(df) ==
    Cardinality({<<i, c>> \in (1..Len(df)) \X rank_cols : IsNaN(df[i][c])})

InitRelaxed ==
    /\ NormIdle
    /\ AuxIdle
    /\ RetryIdle
    /\ PullIdle
    /\ FinbasIdle
    /\ pc = "fields"
    /\ rawPrices = <<>>
    /\ rawFund = <<>>
    /\ padFill = FALSE
    /\ prices = <<>>
    /\ fundamentals = <<>>
    /\ merged = <<>>
    /\ cut = 0
    /\ twin = TwinIdle
    /\ universe = <<>>
    /\ \E cells \in CellChoices : \E kind \in {1, 2} : relaxed_df = RelaxInput(cells, kind)

RelaxFrame == <<rawPrices, rawFund, padFill, prices, fundamentals, merged, cut, twin,
                universe, retryVars, pullVars, finbasVars>>

PrepareFields ==
    /\ pc = "fields"
    /\ relaxed_df' = drop_critical(prepare_fields(relaxed_df))
    /\ pc' = "rank"
    /\ UNCHANGED RelaxFrame
    /\ UNCHANGED normVars
    /\ UNCHANGED auxVars

RankCharacteristics ==
    /\ pc = "rank"
    /\ relaxed_df' = filter_min_characteristics(rank_characteristics(relaxed_df))
    /\ pc' = "impute"
    /\ UNCHANGED RelaxFrame
    /\ UNCHANGED normVars
    /\ UNCHANGED auxVars

ImputeMedians ==
    /\ pc = "impute"
    /\ relaxed_df' = ImputeAll(relaxed_df, rank_cols)
    /\ pc' = "verify"
    /\ UNCHANGED RelaxFrame
    /\ UNCHANGED normVars
    /\ UNCHANGED auxVars

\* assert df[rank_cols].isna().sum().sum() == 0
VerifyNoNAs ==
    /\ pc = "verify"
    /\ pc' = IF RemainingNAs(relaxed_df) = 0 THEN "saved" ELSE "AssertionError"
    /\ UNCHANGED relaxed_df
    /\ UNCHANGED RelaxFrame
    /\ UNCHANGED normVars
    /\ UNCHANGED auxVars

NextRelaxed ==
    \/ PrepareFields
    \/ RankCharacteristics
    \/ ImputeMedians
    \/ VerifyNoNAs

SpecRelaxed == InitRelaxed /\ [][NextRelaxed]_vars

\* C28: the assertion of prepare_ptree_data_relaxed always holds: after the
\* fill with the median of the date and then with the overall median no rank
\* column holds a missing value, for every input that passes the filters.
C28_NoMissingRanks ==
    /\ pc # "AssertionError"
    /\ pc \in {"verify", "saved"} =>
          \A i \in 1..Len(relaxed_df) : \A c \in rank_cols : NotNa(relaxed_df[i][c])

-----------------------------------------------------------------------------
(* ptree_prep.py: the normalization of prepare_tree_input run a second     *)
(* time, on its own output                                                 *)

\* winsorize, standardize and fill in the order of prepare_tree_input
normalize_again(p) ==
    LET winsorized == winsorize_characteristics(p) @@ <<>>
        standardized == standardize_characteristics(winsorized) @@ <<>>
    IN fill_missing_values(standardized)

\* C24: running the normalization of prepare_tree_input (winsorize 1%/99%,
\* minmax, fill 0.0) again on its own output, the 0-filled entries counting
\* as observations, leaves every value that was not missing in the input
\* unchanged.
C24_RenormalizeFixed ==
    (NormDone /\ variant = "ptree_prep") =>
        LET again == normalize_again(panel) @@ <<>>
        IN \A r \in Rows : NotNa(panel0[r]) => again[r] = panel[r]

-----------------------------------------------------------------------------
(* ptree_prep.py: prepare_tree_input on one period with an extreme outlier *)

OutlierEnt == 10             \* entities of the period
OutlierFactor == 100         \* the outlier is this many times the median

\* the book-to-market values of the other entities: e, or e + 5 for e in S
BulkChoices == SUBSET (1..(OutlierEnt - 1))
BulkValue(S, e) == IF e \in S THEN I(e + 5) ELSE I(e)

\* the median of the other entities' values
BulkMedian(S) ==
    LET p == [e \in 1..(OutlierEnt - 1) |-> BulkValue(S, e)]
    IN Quantile(SortedVals(p, DOMAIN p), 1, 2)

\* the period's panel, the outlier held by the entity at row k
OutlierPanel(S, k) ==
    LET bm(i) == IF i = k THEN QMul(I(OutlierFactor), BulkMedian(S))
                 ELSE BulkValue(S, IF i < k THEN i ELSE i - 1)
    IN [columns |-> {"ric", "date", "ret", "bm"},
        rows |-> [i \in 1..OutlierEnt |->
                     [ric |-> i, date |-> MonthEndDay(1), ret |-> Q(i, 100), bm |-> bm(i)]]]

InitOutlier ==
    /\ variant = "prepare_tree_input"
    /\ \E S \in BulkChoices : \E k \in {1, OutlierEnt} : panel0 = OutlierPanel(S, k)
    /\ panel = panel0
    /\ nidx = 0
    /\ nlog = <<>>
    /\ wstat = <<>>
    /\ sstat = <<>>
    /\ pc = "build"
    /\ rawPrices = <<>>
    /\ rawFund = <<>>
    /\ padFill = FALSE
    /\ prices = <<>>
    /\ fundamentals = <<>>
    /\ merged = <<>>
    /\ cut = 0
    /\ twin = TwinIdle
    /\ universe = <<>>
    /\ factors = NoFactors
    /\ char_cols = {}
    /\ frames = <<>>
    /\ CallIdle

SpecOutlier == InitOutlier /\ [][NextPrep]_vars

\* the row of the largest value of the input, and of the largest of the rest
OutlierRow ==
    CHOOSE i \in 1..Len(panel0.rows) :
        \A j \in 1..Len(panel0.rows) : QLe(panel0.rows[j].bm, panel0.rows[i].bm)
SecondRow ==
    CHOOSE i \in (1..Len(panel0.rows)) \ {OutlierRow} :
        \A j \in (1..Len(panel0.rows)) \ {OutlierRow} :
            QLe(panel0.rows[j].bm, panel0.rows[i].bm)

\* the period's 99th percentile of the input column
Pct99OfInput ==
    LET p == ColOf(panel0.rows, "bm")
    IN Quantile(SortedVals(p, DOMAIN p), UpperPct, PctDen)

\* C25: in a period of 10 entities with one book-to-market value 100 times
\* the median, winsorize_characteristics clips the outlier to the period's
\* 99th percentile, after standardize_characteristics the outlier is +1, and
\* the second-most-extreme entity is still close to +1: here, in the upper
\* half of [-1, 1], the weakest reading of "not compressed toward the bulk".
C25_OutlierClipped ==
    /\ pc = "standardize" => panel.rows[OutlierRow].bm = Pct99OfInput
    /\ pc \in {"fill", "returned"} =>
          /\ panel.rows[OutlierRow].bm = I(1)
          /\ QLe(I(0), panel.rows[SecondRow].bm)

====
